---- MODULE Spec2Model ----
(***************************************************************************)
(* A model of tgrep: the per-file scan engine (grep.rs), the matcher       *)
(* closure and strategy selection of main.rs, the output formatter         *)
(* (display.rs), the gitignore pattern compiler and matcher (patterns.rs), *)
(* the directory batch scheduler Walker::grep_many, the walk of a tree     *)
(* with its symlinks and file filters (walker.rs, filters.rs), the row     *)
(* formatter at the width of a terminal (display.rs), the two line         *)
(* iterators (mapped.rs, lines.rs) and main's loop over the root           *)
(* arguments (main.rs).                                                    *)
(*                                                                         *)
(* Text is a sequence of one-character strings; byte offsets are 0-based   *)
(* as in the source, sequence indices 1-based.                             *)
(***************************************************************************)
EXTENDS Integers, Sequences, FiniteSets, TLC

VARIABLES
    args,       \* scan: the command line options read by main
    reader,     \* scan: the LinesReader handed to the strategy
    scan,       \* scan: the position and locals of the running strategy
    gline,      \* compile: the .gitignore line being compiled
    parsed,     \* compile: what Patterns::parse returned for it
    pats,       \* compile, layers: the Patterns value built
    dirs,       \* layers: the directories walk_dir has entered, outermost first
    layers,     \* layers: the root and the lines of every .gitignore loaded
    many,       \* batch: the locals of grep_many, its tasks and stdout
    fs,         \* tree: the file system below the walk root and outside of it
    walk,       \* tree: the pending call, the walk_dir frames, logs and scans
    term,       \* format: the arguments and locals of Format::format
    bytes,      \* lines: the bytes of a file and the two iterators over them
    run,        \* roots: main's loop over the root arguments and stdout
    phase       \* which part of the program the behaviour exercises

scanVars == <<args, reader, scan>>
patVars == <<gline, parsed, pats, dirs, layers>>
walkVars == <<fs, walk>>
restVars == <<bytes, run>>
vars ==
    <<args, reader, scan, gline, parsed, pats, dirs, layers, many, fs, walk, term,
      bytes, run, phase>>

(***************************************************************************)
(* Bounds of the model.                                                    *)
(***************************************************************************)
\* the longest file, in lines
MaxLines == 3
\* the largest -A / -B value
MaxCtx == 2
\* the most entries of the walked file system
MaxEntries == 3
\* the longest line handed to the formatter, in bytes
MaxLineBytes == 18
\* the widest terminal, in columns
MaxWidth == 20
\* the most path components in a generated .gitignore line
MaxPatComps == 2
\* the deepest generated path, in components below the pattern root
MaxPathDepth == 3
\* the deepest chain of directories walk_dir descends
MaxDirs == 2
\* the most files grep_many is handed
MaxFiles == 3

(***************************************************************************)
(* Option<T>: None is the empty set, Some(v) the singleton {v}.            *)
(***************************************************************************)
None == {}
Some(v) == {v}
IsSome(o) == o # {}
Unwrap(o) == CHOOSE v \in o : TRUE
\* Option::xor
Xor(a, b) == IF IsSome(a) /\ IsSome(b) THEN None ELSE a \cup b

(***************************************************************************)
(* Text helpers.                                                           *)
(***************************************************************************)
RECURSIVE Concat(_)
Concat(ss) == IF ss = <<>> THEN <<>> ELSE Head(ss) \o Concat(Tail(ss))

Min(a, b) == IF a < b THEN a ELSE b

\* the lines a user can put in a file: the empty line, a line that is the
\* needle, a line without it, and a line holding it twice among other text
NeedleChar == "x"
FileLines == { <<>>, <<"x">>, <<"y">>, <<"x", "y", "x">> }

RECURSIVE SeqsUpTo(_, _)
SeqsUpTo(S, n) ==
    IF n = 0 THEN { <<>> }
    ELSE LET shorter == SeqsUpTo(S, n - 1)
         IN  shorter \cup { Append(s, e) : s \in { t \in shorter : Len(t) = n - 1 }, e \in S }

Files == SeqsUpTo(FileLines, MaxLines)

\* the bytes of a file: every line followed by a line feed
MapOf(content) == Concat([i \in 1..Len(content) |-> content[i] \o <<"\n">>])

(***************************************************************************)
(* The regexp.  The model's regexp is the literal NeedleChar.              *)
(***************************************************************************)
Match(start, end) == [start |-> start, end |-> end]

\* Regex::find_iter: the non-overlapping matches, leftmost first
RECURSIVE FindFrom(_, _)
FindFrom(text, i) ==
    IF i > Len(text) THEN <<>>
    ELSE IF text[i] = NeedleChar THEN <<Match(i - 1, i)>> \o FindFrom(text, i + 1)
    ELSE FindFrom(text, i + 1)

FindIter(text) == FindFrom(text, 1)

\* Regex::shortest_match: the end offset of the first match
ShortestMatch(text) ==
    IF FindIter(text) = <<>> THEN None ELSE Some(FindIter(text)[1].end)

\* the matcher closure, MatcherOptions::Fuzzy
MatcherFuzzy(text, invert_match) ==
    LET invert_option == IF invert_match THEN Some(<<Match(0, Len(text))>>) ELSE None
        result == IF IsSome(ShortestMatch(text))
                  THEN Some(<<Match(0, Unwrap(ShortestMatch(text)))>>)
                  ELSE None
    IN  Xor(result, invert_option)

\* the matcher closure, MatcherOptions::Exact(usize::MAX): the bound is never
\* reached, so every match of find_iter is kept
MatcherExact(line, invert_match) ==
    LET invert_option == IF invert_match THEN Some(<<Match(0, Len(line))>>) ELSE None
        matches == FindIter(line)
    IN  Xor(IF matches = <<>> THEN None ELSE Some(matches), invert_option)

(***************************************************************************)
(* main: the options, the bail-outs and the choice of scan strategy.       *)
(***************************************************************************)
CtxOpt == { None } \cup { Some(n) : n \in 0..MaxCtx }

ArgsSet ==
    [ count : BOOLEAN, files_with_match : BOOLEAN, files_without_match : BOOLEAN,
      invert_match : BOOLEAN, before : CtxOpt, after : CtxOpt ]

\* Special case: `-L` is the same as `-l -v`
InvertMatch(a) == IF a.files_without_match THEN TRUE ELSE a.invert_match

PathOnly(a) == IF a.files_without_match THEN TRUE ELSE a.files_with_match

\* the three anyhow::bail! of main
ArgsRejected(a) ==
    \/ a.files_without_match /\ a.invert_match
    \/ a.files_without_match /\ a.files_with_match
    \/ a.count /\ InvertMatch(a)

UnwrapOr(o, d) == IF IsSome(o) THEN Unwrap(o) ELSE d

WithContext(a) == IsSome(a.before) \/ IsSome(a.after)

Strategy(a) ==
    IF a.count THEN "count"
    ELSE IF PathOnly(a) THEN (IF InvertMatch(a) THEN "all_lines" ELSE "once")
    ELSE IF WithContext(a) THEN "context"
    ELSE "grep"

Before(a) == UnwrapOr(a.before, 0)

\* mutant of After: one more line of after-context than asked for
AfterOneMore(a) == UnwrapOr(a.after, 0) + 1

After(a) == UnwrapOr(a.after, 0)

(***************************************************************************)
(* DisplayContext and the calls a strategy makes on its Display.           *)
(***************************************************************************)
\* DisplayContext::with_lno_separator
WithLnoSeparator(lno, line, needle, lno_sep) ==
    [lno |-> lno, line |-> line, needle |-> needle, lno_sep |-> lno_sep]

\* DisplayContext::new
NewContext(lno, line, needle) == WithLnoSeparator(lno, line, needle, ":")

\* Display::display(path, context)
DisplayCall(path, context) == [ev |-> "display", path |-> path, ctx |-> context]

\* Display::match_separator()
MatchSeparatorCall(path) == [ev |-> "match_separator", path |-> path, ctx |-> None]

(***************************************************************************)
(* Readers: Mapped (the mmap), Buffered (the PathBuf fallback and stdin,   *)
(* which keep the default map()), and Zero.                                *)
(***************************************************************************)
ReaderKinds == {"Mapped", "Buffered", "Zero"}

\* LinesReader::map: Some(text) or None for "not supported"
ReaderMap(rd) ==
    CASE rd.kind = "Mapped" -> Some(MapOf(rd.content))
      [] rd.kind = "Zero" -> Some(<<>>)
      [] OTHER -> None

\* fuzzy_grep
FuzzyGrep(rd, invert_match) ==
    IF IsSome(ReaderMap(rd))
    THEN (IF IsSome(MatcherFuzzy(Unwrap(ReaderMap(rd)), invert_match))
          THEN Some(<<>>) ELSE None)
    ELSE None

(***************************************************************************)
(* The scan of one file, one step at a time.  pc is the place in           *)
(* generic_grep / _grep_with_context:                                      *)
(*   "start" before the pre-filter, "lines" in the while loop,             *)
(*   "done" returned, "panic" unwound from Zero::lines.                    *)
(***************************************************************************)
EmptyMap == [n \in {} |-> NewContext(0, <<>>, <<>>)]

ScanInit ==
    [ pc |-> "start", total |-> 0, matches |-> 0, stop |-> FALSE,
      lno |-> 0, pcount |-> 0, lqueue |-> <<>>, output |-> EmptyMap, calls |-> <<>> ]

\* mutant of OnMatch: the first-match-only closure returns false, like plain grep
OnMatchNeverStops(strategy, path, context) ==
    IF strategy \in {"grep", "once"}
    THEN [calls |-> <<DisplayCall(path, Some(context))>>, stop |-> FALSE]
    ELSE [calls |-> <<>>, stop |-> FALSE]

\* the on_match closures: the calls made and the value returned (stop)
OnMatch(strategy, path, context) ==
    CASE strategy = "grep" -> [calls |-> <<DisplayCall(path, Some(context))>>, stop |-> FALSE]
      [] strategy = "once" -> [calls |-> <<DisplayCall(path, Some(context))>>, stop |-> TRUE]
      [] OTHER -> [calls |-> <<>>, stop |-> FALSE]

\* the on_end closures
OnEnd(strategy, path, total, matches) ==
    CASE strategy = "all_lines" ->
            IF matches = total THEN <<DisplayCall(path, None)>> ELSE <<>>
      [] strategy = "count" ->
            IF matches > 0
            THEN <<DisplayCall(path, Some(NewContext(matches, <<>>, <<>>)))>>
            ELSE <<>>
      [] OTHER -> <<>>

\* generic_grep up to the while loop
GenericStart(a, rd, s) ==
    IF ~IsSome(FuzzyGrep(rd, InvertMatch(a)))
    THEN [s EXCEPT !.pc = "done",
                   !.calls = @ \o OnEnd(Strategy(a), rd.path, 0, 0)]
    ELSE IF rd.kind = "Zero"
    THEN [s EXCEPT !.pc = "panic"]
    ELSE [s EXCEPT !.pc = "lines"]

\* one iteration of the while loop of generic_grep
GenericLine(a, rd, s) ==
    LET total == s.total + 1
        line == rd.content[total]
        needle == MatcherExact(line, InvertMatch(a))
        r == OnMatch(Strategy(a), rd.path, NewContext(total, line, Unwrap(needle)))
    IN  IF IsSome(needle)
        THEN [s EXCEPT !.total = total, !.matches = @ + 1,
                       !.calls = @ \o r.calls, !.stop = r.stop]
        ELSE [s EXCEPT !.total = total]

\* the loop is left (end of the stream, or break) and on_end is called
GenericEnd(a, rd, s) ==
    [s EXCEPT !.pc = "done",
              !.calls = @ \o OnEnd(Strategy(a), rd.path, s.total, s.matches)]

(***************************************************************************)
(* _grep_with_context.                                                     *)
(***************************************************************************)
\* BTreeMap::entry(key).or_insert_with(value)
OrInsert(output, key, value) ==
    IF key \in DOMAIN output THEN output ELSE (key :> value) @@ output

\* BTreeMap::insert(key, value)
Insert(output, key, value) ==
    (key :> value) @@ output

\* `for i in 0..cmp::min(before, lqueue.len())`, from iteration i on, the
\* upper end n of the range fixed before the first iteration: the closure of
\* or_insert_with, and so the pop_front, runs only for a vacant entry
RECURSIVE BeforeLoop(_, _, _, _, _)
BeforeLoop(i, n, lno, output, lqueue) ==
    IF i >= n THEN [output |-> output, lqueue |-> lqueue]
    ELSE IF (lno - i - 1) \in DOMAIN output
    THEN BeforeLoop(i + 1, n, lno, output, lqueue)
    ELSE BeforeLoop(i + 1, n, lno,
                    OrInsert(output, lno - i - 1,
                             WithLnoSeparator(lno - i - 1, Head(lqueue), <<>>, "-")),
                    Tail(lqueue))

\* _grep_with_context up to the while loop
ContextStart(a, rd, s) ==
    IF ~IsSome(FuzzyGrep(rd, InvertMatch(a)))
    THEN [s EXCEPT !.pc = "done"]
    ELSE IF rd.kind = "Zero"
    THEN [s EXCEPT !.pc = "panic"]
    ELSE [s EXCEPT !.pc = "lines"]

\* one iteration of the while loop of _grep_with_context
ContextLine(a, rd, s) ==
    LET lno == s.lno + 1
        line == rd.content[lno]
        needle == MatcherExact(line, InvertMatch(a))
        out1 == IF s.pcount > 0
                THEN OrInsert(s.output, lno, WithLnoSeparator(lno, line, <<>>, "-"))
                ELSE s.output
        pcount1 == IF s.pcount > 0 THEN s.pcount - 1 ELSE s.pcount
        b == BeforeLoop(0, Min(Before(a), Len(s.lqueue)), lno, out1, s.lqueue)
        out2 == IF IsSome(needle)
                THEN Insert(b.output, lno, NewContext(lno, line, Unwrap(needle)))
                ELSE out1
        pcount2 == IF IsSome(needle) THEN After(a) ELSE pcount1
        q1 == Append(IF IsSome(needle) THEN b.lqueue ELSE s.lqueue, line)
        q2 == IF Len(q1) = Before(a) + 1 THEN Tail(q1) ELSE q1
    IN  [s EXCEPT !.lno = lno, !.output = out2, !.pcount = pcount2, !.lqueue = q2]

\* the keys of a BTreeMap in iteration order, those above `from`
RECURSIVE KeysFrom(_, _)
KeysFrom(output, from) ==
    LET rest == { k \in DOMAIN output : k > from }
    IN  IF rest = {} THEN <<>>
        ELSE LET k == CHOOSE x \in rest : \A y \in rest : x <= y
             IN  <<k>> \o KeysFrom(output, k)

\* mutant of EmitLoop: plno is not tested, a gap ahead of the first record
\* counts as well
RECURSIVE EmitLoopAnyGap(_, _, _, _)
EmitLoopAnyGap(path, output, keys, plno) ==
    IF keys = <<>> THEN <<>>
    ELSE LET lno == Head(keys)
         IN  (IF lno - plno > 1 THEN <<MatchSeparatorCall(path)>> ELSE <<>>)
             \o <<DisplayCall(path, Some(output[lno]))>>
             \o EmitLoopAnyGap(path, output, Tail(keys), lno)

\* `for (lno, context) in output`, from the keys still to come
RECURSIVE EmitLoop(_, _, _, _)
EmitLoop(path, output, keys, plno) ==
    IF keys = <<>> THEN <<>>
    ELSE LET lno == Head(keys)
         IN  (IF plno > 0 /\ lno - plno > 1 THEN <<MatchSeparatorCall(path)>> ELSE <<>>)
             \o <<DisplayCall(path, Some(output[lno]))>>
             \o EmitLoop(path, output, Tail(keys), lno)

\* the loop is left and the collected output is displayed
ContextEnd(a, rd, s) ==
    [s EXCEPT !.pc = "done",
              !.calls = @ \o EmitLoop(rd.path, s.output, KeysFrom(s.output, 0), 0)]

(***************************************************************************)
(* Format::format and DisplayTerminal, colours off.  A rendered string is  *)
(* the sequence of its pieces: the path, the separators, the decimal line  *)
(* number and the characters of the line.  The width is that of a          *)
(* non-terminal (usize::MAX, main.rs), at which rich_format_one cuts       *)
(* nothing off the line.                                                   *)
(***************************************************************************)
\* the options of main that only the formatter reads
DisplayFlags == [match_only : BOOLEAN, no_path : BOOLEAN, no_lno : BOOLEAN]

\* the Format main builds
MainFormat(a, f) ==
    IF PathOnly(a)
    THEN [kind |-> "PathOnly", match_only |-> FALSE, no_path |-> FALSE, no_lno |-> FALSE]
    ELSE [kind |-> "Rich", match_only |-> f.match_only, no_path |-> f.no_path,
          no_lno |-> (f.no_lno \/ a.count)]

\* the prefix of Format::format
FormatPrefix(fmt, path, ctx) ==
    LET p1 == IF fmt.no_path THEN <<>> ELSE <<path, ctx.lno_sep>>
        p2 == IF fmt.no_lno THEN p1 ELSE p1 \o <<ToString(ctx.lno), ctx.lno_sep>>
    IN  IF p2 = <<>> THEN p2 ELSE p2 \o <<" ">>

\* line[start..end]
Slice(line, start, end) == SubSeq(line, start + 1, end)

\* Format::rich_format_needles_only: one row per needle, joined by "\n"
RECURSIVE RichFormatNeedlesOnly(_, _, _)
RichFormatNeedlesOnly(prefix, line, needles) ==
    IF needles = <<>> THEN <<>>
    ELSE prefix \o Slice(line, Head(needles).start, Head(needles).end)
         \o (IF Tail(needles) = <<>> THEN <<>>
             ELSE <<"\n">> \o RichFormatNeedlesOnly(prefix, line, Tail(needles)))

\* Format::rich_format at the width of a non-terminal
RichFormat(prefix, line, needles) == prefix \o line

\* Format::format
Format(fmt, path, context) ==
    IF fmt.kind = "PathOnly" \/ ~IsSome(context) THEN <<path>>
    ELSE LET ctx == Unwrap(context)
             prefix == FormatPrefix(fmt, path, ctx)
         IN  IF fmt.match_only
             THEN RichFormatNeedlesOnly(prefix, ctx.line, ctx.needle)
             ELSE RichFormat(prefix, ctx.line, ctx.needle)

\* what DisplayTerminal hands to its writer for one call
Written(fmt, call) ==
    CASE call.ev = "display" -> Format(fmt, call.path, call.ctx)
      [] call.ev = "match_separator" -> <<"..">>
      [] OTHER -> <<"--">>

(***************************************************************************)
(* A strategy applied to a reader (the Grep closures of grep.rs).          *)
(***************************************************************************)
GrepStart(a, rd, s) ==
    IF Strategy(a) = "context" THEN ContextStart(a, rd, s) ELSE GenericStart(a, rd, s)

\* lines read so far
Consumed(a, s) == IF Strategy(a) = "context" THEN s.lno ELSE s.total

MoreLines(a, rd, s) == Consumed(a, s) < Len(rd.content) /\ ~s.stop

GrepLine(a, rd, s) ==
    IF Strategy(a) = "context" THEN ContextLine(a, rd, s) ELSE GenericLine(a, rd, s)

GrepEnd(a, rd, s) ==
    IF Strategy(a) = "context" THEN ContextEnd(a, rd, s) ELSE GenericEnd(a, rd, s)

(***************************************************************************)
(* Strings of patterns.rs.                                                 *)
(***************************************************************************)
StartsWith(s, p) == Len(s) >= Len(p) /\ SubSeq(s, 1, Len(p)) = p

EndsWith(s, p) == Len(s) >= Len(p) /\ SubSeq(s, Len(s) - Len(p) + 1, Len(s)) = p

\* str::contains
Contains(s, p) == \E i \in 1..(Len(s) - Len(p) + 1) : SubSeq(s, i, i + Len(p) - 1) = p

\* s[n..]
DropFirst(s, n) == SubSeq(s, n + 1, Len(s))

\* s[..n]
TakeFirst(s, n) == SubSeq(s, 1, n)

\* s[s.len() - n..]
TakeLast(s, n) == SubSeq(s, Len(s) - n + 1, Len(s))

Whitespace == {" ", "\t"}

RECURSIVE TrimStart(_)
TrimStart(s) ==
    IF s # <<>> /\ Head(s) \in Whitespace THEN TrimStart(Tail(s)) ELSE s

RECURSIVE TrimEnd(_)
TrimEnd(s) ==
    IF s # <<>> /\ s[Len(s)] \in Whitespace THEN TrimEnd(TakeFirst(s, Len(s) - 1)) ELSE s

\* str::trim_end_matches(p), p not empty
RECURSIVE TrimEndMatches(_, _)
TrimEndMatches(s, p) ==
    IF EndsWith(s, p) THEN TrimEndMatches(TakeFirst(s, Len(s) - Len(p)), p) ELSE s

\* str::trim_start_matches(p), p not empty
RECURSIVE TrimStartMatches(_, _)
TrimStartMatches(s, p) ==
    IF StartsWith(s, p) THEN TrimStartMatches(DropFirst(s, Len(p)), p) ELSE s

\* str::replace("\\ ", " ")
RECURSIVE UnescapeSpaces(_)
UnescapeSpaces(s) ==
    IF s = <<>> THEN <<>>
    ELSE IF StartsWith(s, <<"\\", " ">>) THEN <<" ">> \o UnescapeSpaces(DropFirst(s, 2))
    ELSE <<Head(s)>> \o UnescapeSpaces(Tail(s))

\* find_in_string (memmem): the offset of the first occurrence
FindInString(haystack, needle) ==
    IF Len(needle) > Len(haystack) THEN None
    ELSE LET at == { i \in 0..(Len(haystack) - Len(needle)) :
                        SubSeq(haystack, i + 1, i + Len(needle)) = needle }
         IN  IF at = {} THEN None
             ELSE LET dist == CHOOSE i \in at : \A j \in at : i <= j
                  IN  IF dist >= Len(haystack) THEN None ELSE Some(dist)

\* memchr::memrchr(b'/', path)
LastSlash(path) ==
    LET at == { i \in 0..(Len(path) - 1) : path[i + 1] = "/" }
    IN  IF at = {} THEN None ELSE Some(CHOOSE i \in at : \A j \in at : j <= i)

(***************************************************************************)
(* The glob crate, for the patterns Pattern::new hands to it: literals,    *)
(* `?`, `*` and `**` (no character classes are drawn).  Tokens are "*"     *)
(* (AnySequence), "**" (AnyRecursiveSequence), "?" (AnyChar), any other a  *)
(* literal character; <<"!">> alone stands for a pattern glob rejects.     *)
(***************************************************************************)
GlobError == <<"error">>

\* the length of the run of `*` that starts at index i
RECURSIVE StarRun(_, _)
StarRun(pat, i) ==
    IF i <= Len(pat) /\ pat[i] = "*" THEN 1 + StarRun(pat, i + 1) ELSE 0

\* glob::Pattern::new from index i on, tokens collected so far
RECURSIVE GlobTokens(_, _, _)
GlobTokens(pat, i, tokens) ==
    IF i > Len(pat) THEN tokens
    ELSE IF pat[i] = "*"
    THEN LET count == StarRun(pat, i)
             j == i + count
         IN  IF count > 2 THEN GlobError
             ELSE IF count = 2
             THEN IF i = 1 \/ pat[i - 1] = "/"
                  THEN IF j <= Len(pat) /\ pat[j] = "/"
                       THEN GlobTokens(pat, j + 1, Append(tokens, "**"))
                       ELSE IF j > Len(pat)
                       THEN GlobTokens(pat, j, Append(tokens, "**"))
                       ELSE GlobError
                  ELSE GlobError
             ELSE GlobTokens(pat, j, Append(tokens, "*"))
    ELSE GlobTokens(pat, i + 1, Append(tokens, pat[i]))

\* glob::Pattern::matches with the default MatchOptions: does tokens[ti..]
\* match path[pi..]
RECURSIVE GlobMatchesFrom(_, _, _, _)
GlobMatchesFrom(tokens, ti, path, pi) ==
    IF ti > Len(tokens) THEN pi > Len(path)
    ELSE IF tokens[ti] = "*"
    THEN \E k \in pi..(Len(path) + 1) : GlobMatchesFrom(tokens, ti + 1, path, k)
    ELSE IF tokens[ti] = "**"
    THEN \E k \in pi..(Len(path) + 1) :
            /\ k = pi \/ k = Len(path) + 1 \/ path[k - 1] = "/"
            /\ GlobMatchesFrom(tokens, ti + 1, path, k)
    ELSE /\ pi <= Len(path)
         /\ tokens[ti] = "?" \/ tokens[ti] = path[pi]
         /\ GlobMatchesFrom(tokens, ti + 1, path, pi + 1)

(***************************************************************************)
(* Pattern: the compiled shapes.                                           *)
(***************************************************************************)
GlobChars == {"]", "[", "*", "?"}

\* the class `[:]*` of Pattern::re_prepare: no glob character
NoGlob(s) == \A i \in 1..Len(s) : s[i] \notin GlobChars

Shape(type, first, second) == [type |-> type, first |-> first, second |-> second]

\* the split of `**/([:]*/)**(/[:]*)` (Pattern::re2), or None
DStarSplit(pattern) ==
    IF ~StartsWith(pattern, <<"*", "*", "/">>) THEN None
    ELSE LET rest == DropFirst(pattern, 3)
             at == { i \in 1..Len(rest) :
                        /\ rest[i] = "/"
                        /\ NoGlob(TakeFirst(rest, i))
                        /\ StartsWith(DropFirst(rest, i), <<"*", "*", "/">>)
                        /\ NoGlob(DropFirst(rest, i + 2)) }
         IN  IF at = {} THEN None
             ELSE LET i == CHOOSE x \in at : TRUE
                  IN  Some(<<TakeFirst(rest, i), DropFirst(rest, i + 2)>>)

\* Pattern::new
PatternNew(pattern) ==
    IF pattern = <<"*">> \/ pattern = <<"*", "*", "/", "*">>
    THEN Shape("Any", <<>>, <<>>)
    ELSE IF StartsWith(pattern, <<"*", "*", "/", "*">>) /\ NoGlob(DropFirst(pattern, 4))
    THEN Shape("StarSuffix", DropFirst(pattern, 4), <<>>)
    ELSE IF StartsWith(pattern, <<"*", "*", "/">>) /\ NoGlob(DropFirst(pattern, 2))
    THEN Shape("Suffix", DropFirst(pattern, 2), <<>>)
    ELSE IF /\ StartsWith(pattern, <<"*", "*", "/">>) /\ Len(pattern) >= 4
            /\ EndsWith(pattern, <<"*">>)
            /\ NoGlob(SubSeq(pattern, 4, Len(pattern) - 1))
    THEN Shape("PrefixStar", SubSeq(pattern, 4, Len(pattern) - 1), <<>>)
    ELSE IF /\ StartsWith(pattern, <<"/">>) /\ Len(pattern) >= 2
            /\ EndsWith(pattern, <<"*">>)
            /\ NoGlob(TakeFirst(pattern, Len(pattern) - 1))
    THEN Shape("Prefix", TakeFirst(pattern, Len(pattern) - 1), <<>>)
    ELSE IF IsSome(DStarSplit(pattern))
    THEN Shape("DStarTextDStarText", Unwrap(DStarSplit(pattern))[1],
               Unwrap(DStarSplit(pattern))[2])
    ELSE IF StartsWith(pattern, <<"/">>) /\ NoGlob(pattern)
    THEN Shape("Exact", pattern, <<>>)
    ELSE IF GlobTokens(pattern, 1, <<>>) = GlobError
    THEN Shape("Err", pattern, <<>>)
    ELSE Shape("Glob", pattern, <<>>)

\* Pattern::matches
PatternMatches(p, path) ==
    CASE p.type = "Any" -> TRUE
      [] p.type = "Exact" -> p.first = path
      [] p.type = "Prefix" ->
            Len(path) > Len(p.first) /\ TakeFirst(path, Len(p.first)) = p.first
      [] p.type = "Suffix" ->
            Len(path) >= Len(p.first) /\ TakeLast(path, Len(p.first)) = p.first
      [] p.type = "PrefixStar" ->
            IF IsSome(LastSlash(path))
            THEN LET name == DropFirst(path, Unwrap(LastSlash(path)) + 1)
                 IN  Len(name) > Len(p.first) /\ TakeFirst(name, Len(p.first)) = p.first
            ELSE FALSE
      [] p.type = "StarSuffix" ->
            /\ Len(path) > Len(p.first)
            /\ path[Len(path) - Len(p.first)] # "/"
            /\ TakeLast(path, Len(p.first)) = p.first
      [] p.type = "DStarTextDStarText" ->
            IF Len(path) > Len(p.first) + Len(p.second)
            THEN IF IsSome(FindInString(path, p.first))
                 THEN LET rest == DropFirst(path, Unwrap(FindInString(path, p.first))
                                                    + Len(p.first))
                      IN  /\ Len(rest) > Len(p.second)
                          /\ TakeLast(rest, Len(p.second)) = p.second
                 ELSE FALSE
            ELSE FALSE
      [] OTHER -> GlobMatchesFrom(GlobTokens(p.first, 1, <<>>), 1, path, 1)

(***************************************************************************)
(* PatternSet and Patterns.                                                *)
(***************************************************************************)
\* PatternSet::new
PatternSetNew(root) ==
    [root |-> TrimEndMatches(root, <<"/">>), dir_only |-> <<>>, all |-> <<>>]

\* PatternSet::push
PatternSetPush(set, pattern, dir_only) ==
    IF dir_only THEN [set EXCEPT !.dir_only = Append(@, pattern)]
    ELSE [set EXCEPT !.all = Append(@, pattern)]

\* the path PatternSet::matches tests: the root cut off when it is a prefix
Truncated(set, path) ==
    IF Len(path) >= Len(set.root) /\ TakeFirst(path, Len(set.root)) = set.root
    THEN DropFirst(path, Len(set.root))
    ELSE path

AnyMatches(patterns, path) ==
    \E i \in 1..Len(patterns) : PatternMatches(patterns[i], path)

\* mutant of PatternSetMatches: the directory-only patterns are tested for
\* every entry
PatternSetMatchesAnyKind(set, path, is_dir) ==
    \/ AnyMatches(set.dir_only, Truncated(set, path))
    \/ AnyMatches(set.all, Truncated(set, path))

\* PatternSet::matches
PatternSetMatches(set, path, is_dir) ==
    IF is_dir /\ AnyMatches(set.dir_only, Truncated(set, path))
    THEN TRUE
    ELSE AnyMatches(set.all, Truncated(set, path))

\* the pattern text of Patterns::parse after its normalisation, before the
\* anchoring is decided; None for a blank line or a comment
Normalised(line) ==
    LET p1 == TrimStart(line)
        p2 == IF EndsWith(p1, <<"\\", " ">>) THEN p1
              ELSE IF TrimEnd(p1) = <<"\\">> THEN <<" ">> ELSE TrimEnd(p1)
    IN  IF StartsWith(p2, <<"#">>) \/ p2 = <<>> THEN None
        ELSE LET p3 == UnescapeSpaces(p2)
                 whitelist == StartsWith(p3, <<"!">>)
                 p4 == IF whitelist THEN DropFirst(p3, 1) ELSE p3
                 p5 == IF StartsWith(p4, <<"\\", "#">>) \/ StartsWith(p4, <<"\\", "!">>)
                       THEN DropFirst(p4, 1) ELSE p4
                 p6 == IF StartsWith(p5, <<".", "/">>) THEN DropFirst(p5, 1) ELSE p5
             IN  Some([text |-> p6, whitelist |-> whitelist])

\* the root_only of Patterns::parse
RootOnly(pattern) ==
    \/ StartsWith(pattern, <<"/">>)
    \/ /\ Contains(pattern, <<"/">>)
       /\ ~EndsWith(pattern, <<"/">>)
       /\ ~StartsWith(pattern, <<"*", "*", "/">>)
       /\ ~Contains(pattern, <<"/", "*", "*", "/">>)

\* the dir_only of Patterns::parse
DirOnly(pattern) == EndsWith(pattern, <<"/">>) \/ EndsWith(pattern, <<"/", "*">>)

\* the text Patterns::parse hands to Pattern::new
Transformed(pattern) ==
    LET p1 == TrimEndMatches(TrimEndMatches(pattern, <<"/">>), <<"/", "*">>)
    IN  IF RootOnly(pattern) THEN <<"/">> \o TrimStartMatches(p1, <<"/">>)
        ELSE IF ~StartsWith(p1, <<"*", "*", "/">>) THEN <<"*", "*", "/">> \o p1
        ELSE p1

\* Patterns::parse
Parse(root, line) ==
    IF ~IsSome(Normalised(line)) THEN None
    ELSE LET n == Unwrap(Normalised(line))
         IN  Some([ pattern |-> PatternNew(Transformed(n.text)),
                    whitelist |-> n.whitelist,
                    dir_only |-> DirOnly(n.text) ])

\* Vec::dedup: consecutive equal elements are removed
RECURSIVE Dedup(_)
Dedup(s) ==
    IF Len(s) <= 1 THEN s
    ELSE IF s[1] = s[2] THEN Dedup(Tail(s))
    ELSE <<s[1]>> \o Dedup(Tail(s))

\* Patterns::default
PatternsDefault == [whitelist |-> <<>>, blacklist |-> <<>>]

\* the body of the loop of Patterns::new: what one parsed line adds
PushParsed(sets, res) ==
    IF ~IsSome(res) \/ Unwrap(res).pattern.type = "Err" THEN sets
    ELSE IF Unwrap(res).whitelist
    THEN [sets EXCEPT !.whitelist =
                PatternSetPush(@, Unwrap(res).pattern, Unwrap(res).dir_only)]
    ELSE [sets EXCEPT !.blacklist =
                PatternSetPush(@, Unwrap(res).pattern, Unwrap(res).dir_only)]

\* the loop of Patterns::new over strings[i..]
RECURSIVE PushAll(_, _, _, _)
PushAll(root, strings, i, sets) ==
    IF i > Len(strings) THEN sets
    ELSE PushAll(root, strings, i + 1, PushParsed(sets, Parse(root, strings[i])))

\* Patterns::new
PatternsNew(root, strings) ==
    LET sets == PushAll(root, strings, 1,
                        [whitelist |-> PatternSetNew(root), blacklist |-> PatternSetNew(root)])
    IN  [ whitelist |-> Dedup(<<sets.whitelist>>),
          blacklist |-> Dedup(<<sets.blacklist>>) ]

\* Patterns::extend
Extend(self, other) ==
    [ whitelist |-> Dedup(self.whitelist \o other.whitelist),
      blacklist |-> Dedup(self.blacklist \o other.blacklist) ]

\* mutant of IsExcluded: the whitelist is not consulted
IsExcludedBlacklistOnly(patterns, path, is_dir) ==
    \E i \in 1..Len(patterns.blacklist) :
        PatternSetMatches(patterns.blacklist[i], path, is_dir)

\* mutant of IsExcluded: the sets are gone through in the order of the
\* layers and the first one that matches decides
IsExcludedFirstMatchDecides(patterns, path, is_dir) ==
    \E i \in 1..Len(patterns.blacklist) :
        /\ PatternSetMatches(patterns.blacklist[i], path, is_dir)
        /\ \A j \in 1..Min(i, Len(patterns.whitelist)) :
                ~PatternSetMatches(patterns.whitelist[j], path, is_dir)

\* Patterns::is_excluded
IsExcluded(patterns, path, is_dir) ==
    IF \E i \in 1..Len(patterns.whitelist) :
            PatternSetMatches(patterns.whitelist[i], path, is_dir)
    THEN FALSE
    ELSE \E i \in 1..Len(patterns.blacklist) :
            PatternSetMatches(patterns.blacklist[i], path, is_dir)

(***************************************************************************)
(* The scan of one file.                                                   *)
(***************************************************************************)
\* Walker::grep and grep_many: which reader a file of this content gets.  A
\* file of length 0 gets Zero from grep_many, and cannot be mapped; a longer
\* file is Mapped, or Buffered when the mapping fails.
ReadersOf(path, content) ==
    { [kind |-> k, path |-> path, content |-> content] :
        k \in IF Len(MapOf(content)) = 0 THEN {"Zero", "Buffered"}
              ELSE {"Mapped", "Buffered"} }

ScanFile == "f"

\* grep_many while no directory is processed
ManyIdle ==
    many = [ pc |-> "idle", entries |-> <<>>, idx |-> 1, writers |-> <<>>,
             spawned |-> {}, ran |-> <<>>, keys |-> <<>>, stdout |-> <<>>,
             file_separator_printed |-> FALSE, earlier_output |-> FALSE ]

\* the walk while no tree is walked
WalkIdle ==
    /\ fs = <<>>
    /\ walk = [ ignore_symlinks |-> FALSE, call |-> None, stack |-> <<>>,
                panic |-> FALSE, grepped |-> {}, logs |-> {}, visited |-> {},
                followed |-> {}, walked |-> {}, rewalked |-> {},
                rescanned |-> {} ]

\* the line iterators and main's loop while neither is exercised
RestIdle ==
    /\ bytes = <<>>
    /\ run = <<>>

\* the formatter while no row is formatted
TermIdle ==
    term = [ pc |-> "idle", width |-> 0, prefix |-> <<>>, line |-> <<>>,
             needle |-> [start |-> 0, end |-> 0], w |-> 0,
             left_margin |-> 0, right_margin |-> 0,
             start |-> 0, cut_prefix |-> <<>>, end |-> 0, cut_suffix |-> <<>>,
             iterations |-> 0, out |-> <<>> ]

\* the pattern variables while no pattern is compiled
PatIdle ==
    /\ gline = <<>>
    /\ parsed = None
    /\ pats = PatternsDefault
    /\ dirs = <<>>
    /\ layers = <<>>

InitScan ==
    /\ phase = "scan"
    /\ args \in { a \in ArgsSet : ~ArgsRejected(a) }
    /\ \E content \in Files : reader \in ReadersOf(ScanFile, content)
    /\ scan = ScanInit
    /\ PatIdle
    /\ ManyIdle
    /\ WalkIdle
    /\ TermIdle
    /\ RestIdle

ScanStart ==
    /\ phase = "scan"
    /\ scan.pc = "start"
    /\ scan' = GrepStart(args, reader, scan)
    /\ UNCHANGED <<args, reader, phase, patVars, many, walkVars, term, restVars>>

ScanLine ==
    /\ phase = "scan"
    /\ scan.pc = "lines"
    /\ MoreLines(args, reader, scan)
    /\ scan' = GrepLine(args, reader, scan)
    /\ UNCHANGED <<args, reader, phase, patVars, many, walkVars, term, restVars>>

ScanEnd ==
    /\ phase = "scan"
    /\ scan.pc = "lines"
    /\ ~MoreLines(args, reader, scan)
    /\ scan' = GrepEnd(args, reader, scan)
    /\ UNCHANGED <<args, reader, phase, patVars, many, walkVars, term, restVars>>

NextScan == ScanStart \/ ScanLine \/ ScanEnd

SpecScan == InitScan /\ [][NextScan]_vars

(***************************************************************************)
(* Compiling one .gitignore line (SpecCompile).                            *)
(***************************************************************************)
\* the scan variables while no file is scanned
ScanIdle ==
    /\ args = [ count |-> FALSE, files_with_match |-> FALSE,
                files_without_match |-> FALSE, invert_match |-> FALSE,
                before |-> None, after |-> None ]
    /\ reader = [kind |-> "Zero", path |-> ScanFile, content |-> <<>>]
    /\ scan = ScanInit

\* the pattern root of the compiled line
Root == <<"/", "r">>

PatComps == { <<"a">>, <<"b">>, <<"a", "*">>, <<"*">> }
PatJoiners == { <<"/">>, <<"/", "*", "*", "/">> }
PatLeads == { <<>>, <<"/">>, <<"*", "*", "/">> }
PatTrails == { <<>>, <<"/">>, <<"/", "*">>, <<"/", "*", "*">> }

RECURSIVE PatBodies(_)
PatBodies(n) ==
    IF n <= 1 THEN PatComps
    ELSE PatBodies(n - 1)
         \cup { b \o j \o c : b \in PatBodies(n - 1), j \in PatJoiners, c \in PatComps }

\* lines of the repository's documentation and tests, and lines that reach
\* the escapes of Patterns::parse
ExampleLines ==
    { <<"f", "o", "o", "/", "*", "*", "/", "b", "a", "r">>,
      <<"d", "o", "c", "/", "f", "r", "o", "t", "z", "/">>,
      <<"f", "r", "o", "t", "z", "/">>,
      <<" ", "a", " ">>, <<"a", "/", " ">>, <<"#", "a">>, <<"\\", "#", "a">>,
      <<"\\", "!", "a">>, <<".", "/", "a">>, <<"a", "\\", " ">>, <<"\\">>, <<>> }

GitignoreLines ==
    { neg \o lead \o body \o trail :
        neg \in { <<>>, <<"!">> }, lead \in PatLeads,
        body \in PatBodies(MaxPatComps), trail \in PatTrails }
    \cup ExampleLines

PathComps == { <<"a">>, <<"b">>, <<"b", "a">> }

RECURSIVE RelPaths(_)
RelPaths(n) ==
    IF n <= 0 THEN { <<>> }
    ELSE RelPaths(n - 1)
         \cup { r \o <<"/">> \o c : r \in RelPaths(n - 1), c \in PathComps }

\* the paths of the examples, relative to the root
ExamplePaths ==
    { <<"/", "f", "o", "o", "/", "b", "a", "r">>,
      <<"/", "f", "o", "o", "/", "x", "/", "b", "a", "r">>,
      <<"/", "f", "o", "o", "/", "x", "/", "y", "/", "b", "a", "r">>,
      <<"/", "b", "a", "r">>,
      <<"/", "f", "o", "o", "/", "b", "a", "r", "/", "b", "a", "z">>,
      <<"/", "d", "o", "c", "/", "f", "r", "o", "t", "z">>,
      <<"/", "a", "/", "d", "o", "c", "/", "f", "r", "o", "t", "z">>,
      <<"/", "f", "r", "o", "t", "z">>,
      <<"/", "a", "/", "f", "r", "o", "t", "z">> }

\* the absolute paths of entries below the root
Paths == { Root \o r : r \in (RelPaths(MaxPathDepth) \ { <<>> }) \cup ExamplePaths }

InitCompile ==
    /\ phase = "raw"
    /\ gline \in GitignoreLines
    /\ parsed = None
    /\ pats = PatternsDefault
    /\ dirs = <<>>
    /\ layers = <<>>
    /\ ScanIdle
    /\ ManyIdle
    /\ WalkIdle
    /\ TermIdle
    /\ RestIdle

\* Patterns::new calls Patterns::parse on the line
ParseLine ==
    /\ phase = "raw"
    /\ parsed' = Parse(Root, gline)
    /\ phase' = "parsed"
    /\ UNCHANGED <<gline, pats, dirs, layers, scanVars, many, walkVars, term, restVars>>

\* Patterns::new pushes the compiled pattern and returns the Patterns
NewPatterns ==
    /\ phase = "parsed"
    /\ pats' = PatternsNew(Root, <<gline>>)
    /\ phase' = "compiled"
    /\ UNCHANGED <<gline, parsed, dirs, layers, scanVars, many, walkVars, term, restVars>>

NextCompile == ParseLine \/ NewPatterns

SpecCompile == InitCompile /\ [][NextCompile]_vars

(***************************************************************************)
(* The layers of ignore patterns of a walk (SpecLayers): main builds the   *)
(* patterns of the parents, walk_dir puts the .gitignore of each directory *)
(* it enters in front of the patterns it inherited.                        *)
(***************************************************************************)
\* the contents of the .gitignore files met, as lists of lines
GitignoreFiles ==
    { << <<"a">> >>,
      << <<"!", "a">> >>,
      << <<"b", "/">>, <<"!", "a", "/", "b">> >>,
      << <<"*">>, <<"!", "b", "a">> >>,
      << <<"#", "c">>, <<>> >> }

\* the contents of the .gitignore of the parent of the walked path
ParentFiles == { << <<"b">>, <<"!", "/", "r", "/", "a">> >>, << <<"!", "b", "a">> >> }

DirComps == { <<"a">>, <<"b">> }

\* the directory of the walked path's parent
ParentDir == <<"/">>

\* the entries of the directories a walk can enter
WalkPaths == { Root \o r : r \in RelPaths(MaxDirs) \ { <<>> } }

InitLayers ==
    /\ phase = "main"
    /\ pats = PatternsDefault
    /\ dirs = <<>>
    /\ layers = <<>>
    /\ gline = <<>>
    /\ parsed = None
    /\ ScanIdle
    /\ ManyIdle
    /\ WalkIdle
    /\ TermIdle
    /\ RestIdle

\* main: Patterns::new(fpath, &[]) behind the patterns of the parents, if any
MainPatterns ==
    /\ phase = "main"
    /\ \E parent \in { None } \cup { Some(f) : f \in ParentFiles } :
        LET ignore_patterns == PatternsNew(Root, <<>>)
        IN  IF IsSome(parent)
            THEN /\ pats' = Extend(Extend(PatternsDefault,
                                          PatternsNew(ParentDir, Unwrap(parent))),
                                   ignore_patterns)
                 /\ layers' = << [root |-> ParentDir, strings |-> Unwrap(parent)] >>
            ELSE /\ pats' = ignore_patterns
                 /\ layers' = <<>>
    /\ phase' = "walk"
    /\ UNCHANGED <<dirs, gline, parsed, scanVars, many, walkVars, term, restVars>>

\* walk_dir on the walked path, or on a directory entry of the directory
\* entered last that its patterns do not exclude
WalkDir ==
    /\ phase = "walk"
    /\ Len(dirs) < MaxDirs
    /\ \E path \in IF dirs = <<>> THEN { Root }
                   ELSE { dirs[Len(dirs)] \o <<"/">> \o c : c \in DirComps } :
        /\ dirs # <<>> => ~IsExcluded(pats, path, TRUE)
        /\ \E gitignore \in { None } \cup { Some(f) : f \in GitignoreFiles } :
            IF IsSome(gitignore)
            THEN /\ pats' = Extend(PatternsNew(path, Unwrap(gitignore)), pats)
                 /\ layers' = << [root |-> path, strings |-> Unwrap(gitignore)] >> \o layers
            ELSE UNCHANGED <<pats, layers>>
        /\ dirs' = Append(dirs, path)
    /\ UNCHANGED <<phase, gline, parsed, scanVars, many, walkVars, term, restVars>>

NextLayers == MainPatterns \/ WalkDir

SpecLayers == InitLayers /\ [][NextLayers]_vars

(***************************************************************************)
(* Walker::grep_many on the files of one directory (SpecMany).  A task of  *)
(* the pool shares nothing with the others but its own BufferedWriter, so  *)
(* it runs in one step; the steps of the tasks and of the dispatch loop    *)
(* interleave freely.                                                      *)
(***************************************************************************)
\* the options a batch is run with
ManyArgs ==
    { a \in ArgsSet :
        /\ ~ArgsRejected(a)
        /\ ~a.count /\ ~a.files_with_match
        /\ a.before = a.after /\ a.before \in { None, Some(1) }
        /\ WithContext(a) => ~InvertMatch(a) }

\* the file names of the directory, all below one parent
FileNames == { <<"a">>, <<"a", "b">>, <<"b">>, <<"b", "a">> }

\* the contents of the files: of length zero, without and with matching lines
ManyContents == { <<>>, << <<"y">> >>, << <<"x">>, <<"y">>, <<"x">> >> }

\* what read_dir and the filters of walk_dir leave: distinct files, any order
EntryLists ==
    { es \in SeqsUpTo([path : FileNames, content : ManyContents], MaxFiles) :
        \A i, j \in 1..Len(es) : i # j => es[i].path # es[j].path }

\* the bytes of the names in use, in ascending order
NameBytes == <<"a", "b", "o", "r">>

ByteRank(c) == CHOOSE i \in 1..Len(NameBytes) : NameBytes[i] = c

\* Ord of the paths of one directory: the file names, byte by byte
RECURSIVE PathLess(_, _)
PathLess(p, q) ==
    IF q = <<>> THEN FALSE
    ELSE IF p = <<>> THEN TRUE
    ELSE IF Head(p) # Head(q) THEN ByteRank(Head(p)) < ByteRank(Head(q))
    ELSE PathLess(Tail(p), Tail(q))

RECURSIVE Ascending(_)
Ascending(S) ==
    IF S = {} THEN <<>>
    ELSE LET least == CHOOSE p \in S : \A q \in S \ {p} : PathLess(p, q)
         IN  <<least>> \o Ascending(S \ {least})

\* mutant of WriterKeys: the writers are kept in the order of their insertion
WriterKeysInserted(entries) == [i \in 1..Len(entries) |-> entries[i].path]

\* the keys of the BTreeMap `writers`, in the order its iterator yields them
WriterKeys(entries) == Ascending({ entries[i].path : i \in 1..Len(entries) })

\* a Grep closure run to its return (or its panic) on a reader
RECURSIVE GrepRun(_, _, _)
GrepRun(a, rd, s) ==
    IF s.pc = "start" THEN GrepRun(a, rd, GrepStart(a, rd, s))
    ELSE IF s.pc = "lines"
    THEN IF MoreLines(a, rd, s) THEN GrepRun(a, rd, GrepLine(a, rd, s))
         ELSE GrepRun(a, rd, GrepEnd(a, rd, s))
    ELSE s

\* (self.grep)(Arc::new(Zero::new(entry)), matcher, display)
ZeroGrep(a, entry) ==
    GrepRun(a, [kind |-> "Zero", path |-> entry.path, content |-> <<>>], ScanInit)

\* Walker::grep, the file mapped and not binary
WalkerGrep(a, entry) ==
    GrepRun(a, [kind |-> "Mapped", path |-> entry.path, content |-> entry.content],
            ScanInit)

\* BTreeMap::insert / the lines a BufferedWriter collects
WritersPut(writers, path, lines) ==
    [p \in DOMAIN writers \cup {path} |-> IF p = path THEN lines ELSE writers[p]]

FileSeparatorCall == [ev |-> "file_separator", path |-> <<>>, ctx |-> None]

\* whether an earlier grep_many of this Walker flushed a non-empty buffer:
\* file_separator_printed is false in a new Walker and is set by the flush
\* loop only, when separators are enabled and the buffer has some lines
EarlierOutputs(a) == IF WithContext(a) THEN BOOLEAN ELSE {FALSE}

InitMany ==
    /\ phase = "many"
    /\ args \in ManyArgs
    /\ \E es \in EntryLists, printed \in EarlierOutputs(args) :
        many = [ pc |-> "dispatch", entries |-> es, idx |-> 1, writers |-> <<>>,
                 spawned |-> {}, ran |-> <<>>, keys |-> <<>>, stdout |-> <<>>,
                 file_separator_printed |-> printed, earlier_output |-> printed ]
    /\ reader = [kind |-> "Zero", path |-> ScanFile, content |-> <<>>]
    /\ scan = ScanInit
    /\ PatIdle
    /\ WalkIdle
    /\ TermIdle
    /\ RestIdle

\* one iteration of `for (entry, len) in entries`
Dispatch ==
    /\ phase = "many"
    /\ many.pc = "dispatch"
    /\ many.idx <= Len(many.entries)
    /\ LET entry == many.entries[many.idx]
           len == Len(MapOf(entry.content))
           inline == len = 0 \/ Len(many.entries) < 3
           res == IF len = 0 THEN ZeroGrep(args, entry) ELSE WalkerGrep(args, entry)
       IN  IF inline /\ res.pc = "panic"
           THEN many' = [many EXCEPT !.pc = "panic",
                                     !.writers = WritersPut(@, entry.path, <<>>)]
           ELSE IF inline
           THEN many' = [many EXCEPT !.idx = @ + 1,
                                     !.writers = WritersPut(@, entry.path, res.calls),
                                     !.ran = Append(@, entry.path)]
           ELSE many' = [many EXCEPT !.idx = @ + 1,
                                     !.writers = WritersPut(@, entry.path, <<>>),
                                     !.spawned = @ \cup {entry.path}]
    /\ UNCHANGED <<args, reader, scan, phase, patVars, walkVars, term, restVars>>

\* a task spawned on the pool runs Walker::grep and drops its WaitGroup clone
TaskRun ==
    /\ phase = "many"
    /\ many.pc \in {"dispatch", "panic"}
    /\ \E path \in many.spawned :
        LET entry == CHOOSE e \in { many.entries[i] : i \in 1..Len(many.entries) } :
                        e.path = path
        IN  many' = [many EXCEPT
                        !.writers = WritersPut(@, path, WalkerGrep(args, entry).calls),
                        !.spawned = @ \ {path},
                        !.ran = Append(@, path)]
    /\ UNCHANGED <<args, reader, scan, phase, patVars, walkVars, term, restVars>>

\* mutant of WaitGroupDone: wait() returns while clones are still held
WaitGroupDoneAtOnce(spawned) == TRUE

\* every clone of the WaitGroup was dropped: no spawned task is unfinished
WaitGroupDone(spawned) == spawned = {}

\* wg.wait() returns
Wait ==
    /\ phase = "many"
    /\ many.pc = "dispatch"
    /\ many.idx > Len(many.entries)
    /\ WaitGroupDone(many.spawned)
    /\ many' = [many EXCEPT !.pc = "flush", !.keys = WriterKeys(many.entries)]
    /\ UNCHANGED <<args, reader, scan, phase, patVars, walkVars, term, restVars>>

\* mutant of FlushChecked: the buffer is not asked whether it has some lines
FlushCheckedAnyBuffer(a, w) == WithContext(a)

\* self.print_file_separator && w.has_some(), after which the flag is swapped
FlushChecked(a, w) == WithContext(a) /\ Len(w) > 0

\* one iteration of `for (_, w) in writers`
Flush ==
    /\ phase = "many"
    /\ many.pc = "flush"
    /\ many.keys # <<>>
    /\ LET w == many.writers[Head(many.keys)]
           checked == FlushChecked(args, w)
           separator == IF checked /\ many.file_separator_printed
                        THEN <<FileSeparatorCall>> ELSE <<>>
       IN  many' = [many EXCEPT
                        !.keys = Tail(@),
                        !.file_separator_printed = IF checked THEN TRUE ELSE @,
                        !.stdout = @ \o separator \o w]
    /\ UNCHANGED <<args, reader, scan, phase, patVars, walkVars, term, restVars>>

\* grep_many returns
Return ==
    /\ phase = "many"
    /\ many.pc = "flush"
    /\ many.keys = <<>>
    /\ many' = [many EXCEPT !.pc = "done"]
    /\ UNCHANGED <<args, reader, scan, phase, patVars, walkVars, term, restVars>>

NextMany == Dispatch \/ TaskRun \/ Wait \/ Flush \/ Return

SpecMany == InitMany /\ [][NextMany]_vars

(***************************************************************************)
(* The walk of a tree: Walker::walk, walk_with_parents, walk_dir and       *)
(* process_symlink, over a small file system.  A path is the sequence of   *)
(* its components below "/".  The walk root /r is canonical, as main       *)
(* hands it over; /o is a directory outside of it, and "/" (the empty      *)
(* sequence) holds both.  Ignore patterns let every entry pass here; the   *)
(* file filters are those main builds from the command line.               *)
(***************************************************************************)
WalkRoot == <<"r">>
Outside == <<"o">>

\* the entries the file system may hold below the two directories
TreeNodes == { <<"r", "a">>, <<"r", "b">>, <<"r", "a", "a">>, <<"o", "a">> }

\* what a symlink may point to
LinkTargets ==
    { <<>>, WalkRoot, Outside, <<"r", "a">>, <<"r", "b">>, <<"o", "a">> }

\* what an entry may be: nothing, a file (that can or cannot be read), a
\* directory (that can or cannot be enumerated), an entry whose metadata
\* cannot be read, a symlink (that can or cannot be read)
NodeKinds ==
    { [kind |-> k, target |-> <<>>] :
        k \in {"none", "file", "badfile", "dir", "baddir", "nometa", "badlink"} }
    \cup { [kind |-> "link", target |-> t] : t \in LinkTargets }

ParentOf(p) == SubSeq(p, 1, Len(p) - 1)

\* the file systems: at most MaxEntries entries, each inside a directory
FileSystems ==
    { f \in [TreeNodes -> NodeKinds] :
        /\ Cardinality({ n \in TreeNodes : f[n].kind # "none" }) <= MaxEntries
        /\ \A n \in TreeNodes :
            (f[n].kind # "none" /\ ParentOf(n) \in TreeNodes)
                => f[ParentOf(n)].kind = "dir" }

\* the kind of the entry at a path
KindAt(f, p) ==
    IF p \in {<<>>, WalkRoot, Outside} THEN "dir"
    ELSE IF p \in TreeNodes THEN f[p].kind
    ELSE "none"

\* Path::canonicalize of an absolute path: symlinks are resolved, a path that
\* leads nowhere, through an unreadable link or around a cycle is an error
RECURSIVE Canonical(_, _, _)
Canonical(f, p, fuel) ==
    IF KindAt(f, p) \in {"none", "badlink"} \/ fuel = 0 THEN None
    ELSE IF KindAt(f, p) = "link" THEN Canonical(f, f[p].target, fuel - 1)
    ELSE IF ParentOf(p) # <<>> /\ Canonical(f, ParentOf(p), fuel - 1) # Some(ParentOf(p))
    THEN (IF IsSome(Canonical(f, ParentOf(p), fuel - 1))
          THEN Canonical(f, Append(Unwrap(Canonical(f, ParentOf(p), fuel - 1)),
                                   p[Len(p)]), fuel - 1)
          ELSE None)
    ELSE Some(p)

\* Walker::canonicalize
Canonicalize(f, orig) == Canonical(f, f[orig].target, Cardinality(TreeNodes) + 1)

\* Path::starts_with
PathStartsWith(path, base) ==
    Len(base) <= Len(path) /\ SubSeq(path, 1, Len(base)) = base

\* mutant of SymlinkOutcome: the containment check comes first
SymlinkOutcomeSkipFirst(path, parents) ==
    IF \E i \in 1..Len(parents) : PathStartsWith(path, parents[i]) THEN "skip"
    ELSE IF \E i \in 1..Len(parents) : parents[i] = path THEN "loop"
    ELSE "follow"

\* process_symlink once the link is canonicalized: the loop check, the check
\* for a target inside an ancestor, else the target is walked
SymlinkOutcome(path, parents) ==
    IF \E i \in 1..Len(parents) : parents[i] = path THEN "loop"
    ELSE IF \E i \in 1..Len(parents) : PathStartsWith(path, parents[i]) THEN "skip"
    ELSE "follow"

\* the entries read_dir yields for a directory
Children(f, p) ==
    IF p = <<>> THEN {WalkRoot, Outside}
    ELSE { n \in TreeNodes : ParentOf(n) = p /\ f[n].kind # "none" }

\* a path as the string handed to Filters::matches
RECURSIVE PathText(_)
PathText(p) == IF p = <<>> THEN <<>> ELSE PathText(ParentOf(p)) \o <<"/", p[Len(p)]>>

\* the filter patterns of the command line (-f): none, or the name b
FilterArgs == { <<>>, << <<"b">> >> }

\* main: without any filter pattern every file is accepted
MainFilterPatterns(given) == IF given = <<>> THEN << <<"*">> >> ELSE given

\* Filters::new
RECURSIVE FiltersNew(_)
FiltersNew(strings) ==
    IF strings = <<>> THEN PatternSetNew(<<"/">>)
    ELSE LET pattern == strings[Len(strings)]
             full == IF StartsWith(pattern, <<"*", "*", "/">>) THEN pattern
                     ELSE <<"*", "*", "/">> \o pattern
         IN  PatternSetPush(FiltersNew(SubSeq(strings, 1, Len(strings) - 1)),
                            PatternNew(full), FALSE)

\* Filters::matches
FiltersMatches(filters, path) == PatternSetMatches(filters, PathText(path), FALSE)

\* mutant of ToDiveOf: every entry is walked into, the regular files too
ToDiveOfEveryEntry(entries, files) == entries

\* walk_dir's partition: what is not a regular file goes to to_dive
ToDiveOf(entries, files) == entries \ files

\* mutant of RestOfToDive: the loop does not move on to the next entry
RestOfToDiveSame(to_dive) == to_dive

\* what `for (entry, meta) in to_dive` is left with after one entry
RestOfToDive(to_dive) == Tail(to_dive)

\* a pending call of walk_with_parents
Call(path, parents) == [path |-> path, parents |-> parents]

\* a record of the log
Logged(ev, path, parents) == [ev |-> ev, path |-> path, parents |-> parents]

\* Walker::walk(fpath)
InitWalk ==
    /\ phase = "tree"
    /\ fs \in FileSystems
    /\ \E ignore \in BOOLEAN, given \in FilterArgs :
        walk = [ ignore_symlinks |-> ignore,
                 file_filters |-> FiltersNew(MainFilterPatterns(given)),
                 call |-> Some(Call(WalkRoot, <<>>)),
                 stack |-> <<>>, panic |-> FALSE, grepped |-> {}, logs |-> {},
                 visited |-> {}, followed |-> {}, walked |-> {},
                 rewalked |-> {}, rescanned |-> {} ]
    /\ ScanIdle
    /\ PatIdle
    /\ ManyIdle
    /\ TermIdle
    /\ RestIdle

\* the walk has returned to main
WalkDone == walk.call = None /\ walk.stack = <<>> /\ ~walk.panic

\* walk_with_parents for a directory: walk_dir up to the loop over to_dive;
\* read_dir(path).unwrap() panics when the directory cannot be enumerated
WalkWithParentsDir ==
    /\ phase = "tree"
    /\ ~walk.panic
    /\ IsSome(walk.call)
    /\ LET c == Unwrap(walk.call)
           entries == { n \in Children(fs, c.path) : KindAt(fs, n) # "nometa" }
           files == { n \in entries : KindAt(fs, n) \in {"file", "badfile"} }
           frame == [ path |-> c.path, parents |-> Append(c.parents, c.path),
                      to_dive |-> Ascending(ToDiveOf(entries, files)),
                      to_grep |-> { n \in files :
                                      FiltersMatches(walk.file_filters, n) } ]
       IN  /\ KindAt(fs, c.path) \in {"dir", "baddir"}
           /\ IF KindAt(fs, c.path) = "baddir"
              THEN walk' = [walk EXCEPT !.panic = TRUE, !.call = None,
                                        !.visited = @ \cup {c},
                                        !.walked = @ \cup {c.path},
                                        !.rewalked = @ \cup ({c.path} \cap walk.walked)]
              ELSE walk' = [walk EXCEPT
                                !.call = None,
                                !.stack = <<frame>> \o @,
                                !.visited = @ \cup {c},
                                !.walked = @ \cup {c.path},
                                !.rewalked = @ \cup ({c.path} \cap walk.walked),
                                !.logs = @ \cup { Logged("nometa", n, frame.parents) :
                                                    n \in Children(fs, c.path) \ entries }]
    /\ UNCHANGED <<fs, phase, scanVars, patVars, many, term, restVars>>

\* walk_with_parents for a regular file: Walker::grep; a file that cannot be
\* mapped is warned about and handed to the closure as a path
WalkWithParentsFile ==
    /\ phase = "tree"
    /\ ~walk.panic
    /\ IsSome(walk.call)
    /\ LET c == Unwrap(walk.call)
       IN  /\ KindAt(fs, c.path) \in {"file", "badfile"}
           /\ walk' = [walk EXCEPT
                        !.call = None,
                        !.visited = @ \cup {c},
                        !.grepped = @ \cup {c.path},
                        !.rescanned = @ \cup ({c.path} \cap walk.grepped),
                        !.logs = @ \cup (IF KindAt(fs, c.path) = "badfile"
                                         THEN {Logged("unmapped", c.path, c.parents)}
                                         ELSE {})]
    /\ UNCHANGED <<fs, phase, scanVars, patVars, many, term, restVars>>

\* walk_with_parents for a symlink: ignore_symlinks, read_link, process_symlink
WalkWithParentsSymlink ==
    /\ phase = "tree"
    /\ ~walk.panic
    /\ IsSome(walk.call)
    /\ LET c == Unwrap(walk.call)
           path == Canonicalize(fs, c.path)
           outcome == IF walk.ignore_symlinks THEN "ignored"
                      ELSE IF KindAt(fs, c.path) = "badlink" THEN "noreadlink"
                      ELSE IF ~IsSome(path) THEN "nocanon"
                      ELSE SymlinkOutcome(Unwrap(path), c.parents)
       IN  /\ KindAt(fs, c.path) \in {"link", "badlink"}
           /\ IF outcome = "follow"
              THEN walk' = [walk EXCEPT
                                !.call = Some(Call(Unwrap(path),
                                                   Append(c.parents, Unwrap(path)))),
                                !.visited = @ \cup {c},
                                !.followed = @ \cup {c}]
              ELSE walk' = [walk EXCEPT
                                !.call = None,
                                !.visited = @ \cup {c},
                                !.logs = @ \cup {Logged(outcome, c.path, c.parents)}]
    /\ UNCHANGED <<fs, phase, scanVars, patVars, many, term, restVars>>

\* walk_with_parents for the target of a followed symlink whose metadata
\* cannot be read: an error is logged and the call returns
WalkWithParentsNoMeta ==
    /\ phase = "tree"
    /\ ~walk.panic
    /\ IsSome(walk.call)
    /\ LET c == Unwrap(walk.call)
       IN  /\ KindAt(fs, c.path) = "nometa"
           /\ walk' = [walk EXCEPT
                        !.call = None,
                        !.visited = @ \cup {c},
                        !.logs = @ \cup {Logged("nometa", c.path, c.parents)}]
    /\ UNCHANGED <<fs, phase, scanVars, patVars, many, term, restVars>>

\* one iteration of `for (entry, meta) in to_dive`
ToDive ==
    /\ phase = "tree"
    /\ ~walk.panic
    /\ walk.call = None
    /\ walk.stack # <<>>
    /\ Head(walk.stack).to_dive # <<>>
    /\ walk' = [walk EXCEPT
                    !.call = Some(Call(Head(Head(walk.stack).to_dive),
                                       Head(walk.stack).parents)),
                    !.stack = <<[Head(walk.stack) EXCEPT !.to_dive = RestOfToDive(@)]>>
                                \o Tail(walk.stack)]
    /\ UNCHANGED <<fs, phase, scanVars, patVars, many, term, restVars>>

\* self.grep_many(&to_grep), and walk_dir returns
GrepMany ==
    /\ phase = "tree"
    /\ ~walk.panic
    /\ walk.call = None
    /\ walk.stack # <<>>
    /\ Head(walk.stack).to_dive = <<>>
    /\ walk' = [walk EXCEPT !.grepped = @ \cup Head(walk.stack).to_grep,
                            !.rescanned = @ \cup (Head(walk.stack).to_grep
                                                     \cap walk.grepped),
                            !.stack = Tail(@)]
    /\ UNCHANGED <<fs, phase, scanVars, patVars, many, term, restVars>>

NextWalk ==
    WalkWithParentsDir \/ WalkWithParentsFile \/ WalkWithParentsSymlink
        \/ WalkWithParentsNoMeta \/ ToDive \/ GrepMany

SpecWalk == InitWalk /\ [][NextWalk]_vars

\* the walk runs on one thread that is never suspended for good: walk returns
\* to main only when every call it made has returned
SpecWalkFair == SpecWalk /\ WF_vars(NextWalk)

(***************************************************************************)
(* The formatter at the width of a terminal: Format::format for            *)
(* Format::Rich without colours and a record with one needle, and          *)
(* rich_format_one, one step at a time.  A line is its sequence of bytes:  *)
(* "-" is an ASCII character, "L" the first byte of a longer character and *)
(* "c" a continuation byte.  usize arithmetic is 64 bits wide in the       *)
(* source; the model wraps at UsizeModulus, far above every length it      *)
(* draws, and a subtraction that overflows either panics (overflow checks  *)
(* on, the debug profile) or wraps (release profile).                      *)
(***************************************************************************)
UsizeModulus == 2 ^ 30

\* usize::MAX
UsizeMax == UsizeModulus - 1

\* cmp::max
Max(a, b) == IF a > b THEN a ELSE b

\* the markers of a cut line
CutPrefix == <<"[", ".", ".", ".", "]", " ">>
CutSuffix == <<" ", "[", ".", ".", ".", "]">>

\* the bytes of a character that takes n bytes
CharBytes(n) == IF n = 1 THEN <<"-">> ELSE <<"L">> \o [i \in 1..(n - 1) |-> "c"]

\* the characters of the generated lines, by their widths, repeated in turn
CharPatterns == { <<1>>, <<2>>, <<3>>, <<1, 3>> }

\* the line of n characters whose widths follow the pattern
RECURSIVE PatternLine(_, _, _)
PatternLine(pattern, k, n) ==
    IF n = 0 THEN <<>>
    ELSE CharBytes(pattern[k])
            \o PatternLine(pattern, IF k = Len(pattern) THEN 1 ELSE k + 1, n - 1)

\* the generated lines, at most MaxLineBytes long
TermLines ==
    { l \in { PatternLine(pattern, 1, n) : pattern \in CharPatterns, n \in 0..MaxLineBytes } :
        Len(l) <= MaxLineBytes }

\* str::is_char_boundary
IsCharBoundary(line, i) ==
    \/ i = 0
    \/ i = Len(line)
    \/ (i > 0 /\ i < Len(line) /\ line[i + 1] # "c")

\* line.get(from..to) == None
GetIsNone(line, from, to) ==
    from > to \/ to > Len(line)
        \/ ~IsCharBoundary(line, from) \/ ~IsCharBoundary(line, to)

\* the match ranges regexp.find_iter can yield for a line
NeedlesOf(line) ==
    { [start |-> s, end |-> e] : s \in 0..Len(line), e \in 0..Len(line) } \cap
    { n \in [start : 0..Len(line), end : 0..Len(line)] :
        n.start <= n.end /\ IsCharBoundary(line, n.start) /\ IsCharBoundary(line, n.end) }

\* the widths of the terminal
TermWidths == 0..MaxWidth

\* the prefix of a row: none with --no-path --no-lno, else path, separators
\* and line number, as "/:0 " in tests::terminal_format
TermPrefixes == { <<>>, <<"/", ":", "0", " ">> }

\* `while line.get(offset..needle.start) == None { offset += 1 }`
RECURSIVE StartLoop(_, _, _)
StartLoop(line, offset, needle_start) ==
    IF GetIsNone(line, offset, needle_start)
    THEN StartLoop(line, offset + 1, needle_start)
    ELSE offset

\* `while line.get(needle.end..offset) == None { offset -= 1 }`; beyond the
\* end of the line every iteration only decrements
RECURSIVE EndLoop(_, _, _)
EndLoop(line, needle_end, offset) ==
    IF offset > Len(line) THEN EndLoop(line, needle_end, Len(line))
    ELSE IF GetIsNone(line, needle_end, offset)
    THEN EndLoop(line, needle_end, offset - 1)
    ELSE offset

\* DisplayTerminal::display calls Format::format(width, path, Some(context))
InitFormat ==
    /\ phase = "format"
    /\ \E width \in TermWidths, prefix \in TermPrefixes, line \in TermLines :
        \E needle \in NeedlesOf(line) :
            term = [ pc |-> "format", width |-> width, prefix |-> prefix,
                     line |-> line, needle |-> needle, w |-> 0,
                     left_margin |-> 0, right_margin |-> 0,
                     start |-> 0, cut_prefix |-> <<>>, end |-> 0, cut_suffix |-> <<>>,
                     iterations |-> 0, out |-> <<>> ]
    /\ ScanIdle
    /\ PatIdle
    /\ ManyIdle
    /\ WalkIdle
    /\ RestIdle

\* Format::format: rich_format(width - prefix.len(), ..) -> rich_format_one
FormatCall ==
    /\ phase = "format"
    /\ term.pc = "format"
    /\ IF term.width >= Len(term.prefix)
       THEN term' = [term EXCEPT !.pc = "margins", !.w = term.width - Len(term.prefix)]
       ELSE \/ term' = [term EXCEPT !.pc = "panic"]
            \/ term' = [term EXCEPT
                            !.pc = "margins",
                            !.w = term.width - Len(term.prefix) + UsizeModulus]
    /\ UNCHANGED <<phase, scanVars, patVars, many, walkVars, restVars>>

\* rich_format_one: the margins left and right of the needle
Margins ==
    /\ phase = "format"
    /\ term.pc = "margins"
    /\ LET needle_len == term.needle.end - term.needle.start
           width == Max(term.w, needle_len)
           half == (width - needle_len) \div 2
       IN  term' =
            IF width = needle_len
            THEN [term EXCEPT !.pc = "start", !.w = width,
                              !.left_margin = UsizeMax, !.right_margin = UsizeMax]
            ELSE IF term.needle.start < width \div 2
            THEN [term EXCEPT !.pc = "start", !.w = width,
                              !.left_margin = Min(term.needle.start, half),
                              !.right_margin = width - needle_len
                                                - Min(term.needle.start, half)]
            ELSE [term EXCEPT !.pc = "start", !.w = width,
                              !.right_margin = Min(Len(term.line) - term.needle.end, half),
                              !.left_margin = width - needle_len
                                    - Min(Len(term.line) - term.needle.end, half)]
    /\ UNCHANGED <<phase, scanVars, patVars, many, walkVars, restVars>>

\* rich_format_one: (start, prefix)
StartCut ==
    /\ phase = "format"
    /\ term.pc = "start"
    /\ LET offset == term.needle.start - term.left_margin + Len(CutPrefix)
       IN  term' =
            IF term.left_margin = UsizeMax
            THEN [term EXCEPT !.pc = "end", !.start = term.needle.start]
            ELSE IF term.needle.start > term.left_margin /\ offset < term.needle.start
            THEN [term EXCEPT
                    !.pc = "end",
                    !.start = StartLoop(term.line, offset, term.needle.start),
                    !.cut_prefix = CutPrefix,
                    !.iterations = StartLoop(term.line, offset, term.needle.start) - offset]
            ELSE [term EXCEPT !.pc = "end", !.start = 0]
    /\ UNCHANGED <<phase, scanVars, patVars, many, walkVars, restVars>>

\* rich_format_one: (end, suffix); needle.end + right_margin - suffix.len()
\* overflows when the sum is below the length of the suffix
EndCut ==
    /\ phase = "format"
    /\ term.pc = "end"
    /\ LET sum == term.needle.end + term.right_margin
           cut == term.right_margin # UsizeMax
                    /\ Len(term.line) - term.needle.end > term.right_margin
           offset == sum - Len(CutSuffix)
           wrapped == offset + UsizeModulus
       IN  IF ~cut
           THEN term' = [term EXCEPT
                            !.pc = "join",
                            !.end = IF term.right_margin = UsizeMax
                                    THEN term.needle.end ELSE Len(term.line)]
           ELSE IF sum < Len(CutSuffix)
           THEN \/ term' = [term EXCEPT !.pc = "panic"]
                \/ term' = [term EXCEPT
                                !.pc = "join",
                                !.end = EndLoop(term.line, term.needle.end, wrapped),
                                !.cut_suffix = CutSuffix,
                                !.iterations = Max(@, wrapped
                                    - EndLoop(term.line, term.needle.end, wrapped))]
           ELSE IF term.needle.end >= offset
           THEN term' = [term EXCEPT !.pc = "join", !.end = Len(term.line)]
           ELSE term' = [term EXCEPT
                            !.pc = "join",
                            !.end = EndLoop(term.line, term.needle.end, offset),
                            !.cut_suffix = CutSuffix,
                            !.iterations = Max(@, offset
                                - EndLoop(term.line, term.needle.end, offset))]
    /\ UNCHANGED <<phase, scanVars, patVars, many, walkVars, restVars>>

\* rich_format_one: format!("{}{}{}{}{}", ..), and the prefix put before it
Join ==
    /\ phase = "format"
    /\ term.pc = "join"
    /\ term' = [term EXCEPT
                    !.pc = "done",
                    !.out = term.prefix \o term.cut_prefix
                            \o Slice(term.line, term.start, term.needle.start)
                            \o Slice(term.line, term.needle.start, term.needle.end)
                            \o Slice(term.line, term.needle.end, term.end)
                            \o term.cut_suffix]
    /\ UNCHANGED <<phase, scanVars, patVars, many, walkVars, restVars>>

NextFormat == FormatCall \/ Margins \/ StartCut \/ EndCut \/ Join

SpecFormat == InitFormat /\ [][NextFormat]_vars

(***************************************************************************)
(* The two line iterators over the bytes of one file: MappedLines over the *)
(* mmap and Lines over a BufReader.  A content is its sequence of bytes:   *)
(* "x" is an ASCII character, LF and CR the two line ends, and Byte80 a    *)
(* byte that is no UTF-8 on its own.                                       *)
(***************************************************************************)
\* the most bytes a file holds
MaxBytes == 4

LF == "\n"
CR == "\r"
Byte80 == "80"
\* `c as char` of the byte 0x80
CharOf80 == "U+0080"

FileBytes == { "x", LF, CR, Byte80 }

\* the contents of a file that can be mapped (an empty file cannot)
ByteContents == SeqsUpTo(FileBytes, MaxBytes) \ { <<>> }

\* memchr(b'\n', &mmap[from..]): the offset from `from`, or None
MemchrLF(mmap, from) ==
    LET at == { i \in from..(Len(mmap) - 1) : mmap[i + 1] = LF }
    IN  IF at = {} THEN None
        ELSE Some((CHOOSE i \in at : \A j \in at : i <= j) - from)

\* str::from_utf8(line), and the fallback `line.iter().map(|&c| c as char)`
DecodedLine(line) ==
    [i \in 1..Len(line) |-> IF line[i] = Byte80 THEN CharOf80 ELSE line[i]]

\* MappedLines::advance
MappedAdvance(mmap, it) ==
    LET start == it.pos
        found == MemchrLF(mmap, start)
        end0 == IF IsSome(found) THEN start + Unwrap(found) ELSE Len(mmap)
        pos0 == end0 + 1
        pos1 == IF pos0 < Len(mmap) /\ mmap[pos0 + 1] = CR THEN pos0 + 1 ELSE pos0
        end1 == IF 1 <= end0 /\ end0 < Len(mmap) /\ mmap[end0 + 1] = CR
                THEN end0 - 1 ELSE end0
    IN  IF start >= Len(mmap)
        THEN [it EXCEPT !.line.start = start]
        ELSE [it EXCEPT !.line = [start |-> start, end |-> end1], !.pos = pos1]

\* BufRead::read_line: the bytes up to and with the next LF, or up to the end
ReadLine(content, offset) ==
    LET found == MemchrLF(content, offset)
    IN  IF IsSome(found)
        THEN SubSeq(content, offset + 1, offset + Unwrap(found) + 1)
        ELSE SubSeq(content, offset + 1, Len(content))

\* what Lines::advance leaves in buf for the bytes read_line took
LinesBuf(chunk) ==
    IF \E i \in 1..Len(chunk) : chunk[i] = Byte80 THEN <<>>
    ELSE IF chunk # <<>> /\ chunk[Len(chunk)] = LF
    THEN LET popped == SubSeq(chunk, 1, Len(chunk) - 1)
         IN  IF popped # <<>> /\ popped[Len(popped)] = CR
             THEN SubSeq(popped, 1, Len(popped) - 1)
             ELSE popped
    ELSE chunk

InitLines ==
    /\ phase = "lines"
    /\ \E content \in ByteContents :
        bytes = [ content |-> content,
                  mapped |-> [ line |-> [start |-> 0, end |-> 0], pos |-> 0,
                               out |-> <<>>, done |-> FALSE ],
                  lines |-> [ offset |-> 0, buf |-> <<>>, end |-> FALSE,
                              out |-> <<>> ] ]
    /\ run = <<>>
    /\ ScanIdle
    /\ PatIdle
    /\ ManyIdle
    /\ WalkIdle
    /\ TermIdle

\* MappedLines::next: advance, then the line or None
MappedNext ==
    /\ phase = "lines"
    /\ ~bytes.mapped.done
    /\ LET it == MappedAdvance(bytes.content, bytes.mapped)
       IN  bytes' = [bytes EXCEPT !.mapped =
                IF it.line.start >= Len(bytes.content)
                THEN [it EXCEPT !.done = TRUE]
                ELSE [it EXCEPT !.out = Append(@,
                        DecodedLine(SubSeq(bytes.content, it.line.start + 1,
                                           it.line.end)))]]
    /\ UNCHANGED <<run, phase, scanVars, patVars, many, walkVars, term>>

\* Lines::next: advance, then get
LinesNext ==
    /\ phase = "lines"
    /\ ~bytes.lines.end
    /\ LET chunk == ReadLine(bytes.content, bytes.lines.offset)
       IN  bytes' = [bytes EXCEPT !.lines =
                IF chunk = <<>>
                THEN [@ EXCEPT !.buf = <<>>, !.end = TRUE]
                ELSE [@ EXCEPT !.offset = @ + Len(chunk),
                               !.buf = LinesBuf(chunk),
                               !.out = Append(@, LinesBuf(chunk))]]
    /\ UNCHANGED <<run, phase, scanVars, patVars, many, walkVars, term>>

NextLines == MappedNext \/ LinesNext

SpecLines == InitLines /\ [][NextLines]_vars

(***************************************************************************)
(* main's loop over the root arguments: one Walker is built for each root  *)
(* and walks it; of a walk only the buffers its grep_many calls flush are  *)
(* kept, in the order they are flushed, each with what has_some() tells.   *)
(***************************************************************************)
\* the most root arguments, and the most files below one root
MaxRoots == 2
MaxBuffers == 2

\* the buffers flushed during the walk of one root: has_some() of each
RootBuffers == SeqsUpTo(BOOLEAN, MaxBuffers)

\* the root arguments, each with its buffers
RootArgs == SeqsUpTo(RootBuffers, MaxRoots)

InitRoots ==
    /\ phase = "roots"
    /\ \E separators \in BOOLEAN, paths \in RootArgs :
        run = [ print_file_separator |-> separators, paths |-> paths,
                walker |-> None, root |-> 0, stdout |-> <<>> ]
    /\ bytes = <<>>
    /\ ScanIdle
    /\ PatIdle
    /\ ManyIdle
    /\ WalkIdle
    /\ TermIdle

\* `for path in paths`: WalkerBuilder::new(..).build() for the next root; the
\* flag of Walker::new is Default::default()
BuildWalker ==
    /\ phase = "roots"
    /\ run.walker = None
    /\ run.paths # <<>>
    /\ run' = [run EXCEPT
                !.walker = Some([ file_separator_printed |-> FALSE,
                                  writers |-> Head(run.paths) ]),
                !.root = @ + 1,
                !.paths = Tail(@)]
    /\ UNCHANGED <<bytes, phase, scanVars, patVars, many, walkVars, term>>

\* one iteration of `for (_, w) in writers` of a grep_many of this walker
FlushWriter ==
    /\ phase = "roots"
    /\ IsSome(run.walker)
    /\ Unwrap(run.walker).writers # <<>>
    /\ LET walker == Unwrap(run.walker)
           has_some == Head(walker.writers)
           checked == run.print_file_separator /\ has_some
           separator == checked /\ walker.file_separator_printed
       IN  run' = [run EXCEPT
                !.walker = Some([ file_separator_printed |->
                                      IF checked THEN TRUE
                                      ELSE walker.file_separator_printed,
                                  writers |-> Tail(walker.writers) ]),
                !.stdout = @ \o (IF separator THEN <<[ev |-> "file_separator", root |-> run.root]>>
                                 ELSE <<>>)
                             \o (IF has_some THEN <<[ev |-> "buffer", root |-> run.root]>>
                                 ELSE <<>>)]
    /\ UNCHANGED <<bytes, phase, scanVars, patVars, many, walkVars, term>>

\* walker.walk(&fpath) returns and the walker is dropped
WalkReturns ==
    /\ phase = "roots"
    /\ IsSome(run.walker)
    /\ Unwrap(run.walker).writers = <<>>
    /\ run' = [run EXCEPT !.walker = None]
    /\ UNCHANGED <<bytes, phase, scanVars, patVars, many, walkVars, term>>

NextRoots == BuildWalker \/ FlushWriter \/ WalkReturns

SpecRoots == InitRoots /\ [][NextRoots]_vars

(***************************************************************************)
(* Properties of the scan of one file.                                     *)
(***************************************************************************)
\* the line numbers the regexp matches
RegexpLines ==
    { i \in 1..Len(reader.content) : FindIter(reader.content[i]) # <<>> }

\* the line numbers for which matcher(line, Exact(usize::MAX)) is Some(_)
MatchedLines ==
    { i \in 1..Len(reader.content) :
        IsSome(MatcherExact(reader.content[i], InvertMatch(args))) }

\* the strings the scan has written, under the formatter options f
WrittenBy(f) ==
    [i \in 1..Len(scan.calls) |-> Written(MainFormat(args, f), scan.calls[i])]

\* C3: with -L a file is reported iff every non-empty line of it fails to
\* match the regexp (stated for a mapped file, whose lines the scan can read)
C3_ReportedIffNoLineMatches ==
    (phase = "scan" /\ args.files_without_match /\ reader.kind = "Mapped"
        /\ scan.pc = "done")
    => ((scan.calls # <<>>)
            <=> (\A i \in 1..Len(reader.content) :
                    reader.content[i] # <<>> => i \notin RegexpLines))

\* C4: with -c the one record written for a file shows the number of lines
\* for which the matcher returned Some(_), and no record is written when that
\* number is 0 (stated for a mapped file and a user who did not pass --no-lno)
C4_CountShownInRecord ==
    (phase = "scan" /\ args.count /\ reader.kind = "Mapped" /\ scan.pc = "done")
    => \A f \in DisplayFlags :
          ~f.no_lno =>
            IF MatchedLines = {} THEN WrittenBy(f) = <<>>
            ELSE /\ Len(WrittenBy(f)) = 1
                 /\ \E k \in 1..Len(WrittenBy(f)[1]) :
                        WrittenBy(f)[1][k] = ToString(Cardinality(MatchedLines))

\* C5: with -l and without -v a scan delivers at most one record; once it is
\* delivered the scan has stopped at the first matching line; a mapped file
\* with a matching line is named exactly once at the end of its scan
C5_AtMostOneRecord ==
    (phase = "scan" /\ args.files_with_match /\ ~args.invert_match /\ ~args.count)
    => /\ Len(scan.calls) <= 1
       /\ scan.calls # <<>> =>
            /\ scan.stop
            /\ scan.total \in RegexpLines
            /\ \A i \in RegexpLines : scan.total <= i
            /\ \A f \in DisplayFlags : WrittenBy(f) = << <<reader.path>> >>
       /\ (scan.pc = "done" /\ reader.kind = "Mapped" /\ RegexpLines # {})
            => Len(scan.calls) = 1

\* C5 witness: a file with matches on several lines has been scanned to the
\* end and is named once
C5_Witness ==
    /\ phase = "scan" /\ args.files_with_match /\ ~args.invert_match /\ ~args.count
    /\ scan.pc = "done"
    /\ Cardinality(RegexpLines) >= 2
    /\ Len(scan.calls) = 1

\* the line numbers displayed so far, in the order of the calls
DisplayedLnos ==
    LET shown == SelectSeq(scan.calls, LAMBDA c : c.ev = "display")
    IN  [i \in 1..Len(shown) |-> Unwrap(shown[i].ctx).lno]

\* n is within before lines ahead of, or after lines behind, a matched line
\* (the options as given on the command line)
NearMatch(n) ==
    \E m \in MatchedLines :
        m - UnwrapOr(args.before, 0) <= n /\ n <= m + UnwrapOr(args.after, 0)

\* C6: in with-context mode every collected and every emitted line number is
\* within [m - B, m + A] of a matched line m, and the emitted line numbers are
\* strictly increasing (so none is emitted twice); without -v a mapped file
\* has every such line emitted
C6_ContextWindow ==
    (phase = "scan" /\ Strategy(args) = "context")
    => /\ \A n \in DOMAIN scan.output : NearMatch(n) /\ n <= scan.lno
       /\ \A i \in 1..Len(DisplayedLnos) : NearMatch(DisplayedLnos[i])
       /\ \A i, j \in 1..Len(DisplayedLnos) :
             i < j => DisplayedLnos[i] < DisplayedLnos[j]
       /\ scan.pc = "done" /\ reader.kind = "Mapped" /\ ~InvertMatch(args)
             => { DisplayedLnos[i] : i \in 1..Len(DisplayedLnos) }
                    = { n \in 1..Len(reader.content) : NearMatch(n) }

\* C6 witness: a scan with B > 0 and A > 0 has emitted a line before and a
\* line after a matched line
C6_Witness ==
    /\ phase = "scan" /\ Strategy(args) = "context" /\ scan.pc = "done"
    /\ UnwrapOr(args.before, 0) > 0 /\ UnwrapOr(args.after, 0) > 0
    /\ \E i, j, k \in 1..Len(DisplayedLnos) :
          /\ i < j /\ j < k
          /\ DisplayedLnos[j] \in MatchedLines
          /\ DisplayedLnos[i] \notin MatchedLines
          /\ DisplayedLnos[k] \notin MatchedLines

\* C7: in with-context mode the line-number separator of a record tells its
\* kind: ":" for a matching line, "+" for a line emitted as after-context of
\* an earlier match, "-" for a before-context line
C7_SeparatorTellsKind ==
    (phase = "scan" /\ Strategy(args) = "context")
    => \A n \in DOMAIN scan.output :
          scan.output[n].lno_sep =
             IF n \in MatchedLines THEN ":"
             ELSE IF \E m \in MatchedLines :
                        m < n /\ n <= m + UnwrapOr(args.after, 0)
                  THEN "+"
                  ELSE "-"

(***************************************************************************)
(* Properties of one compiled .gitignore line.                             *)
(***************************************************************************)
\* the one PatternSet of pats that holds the compiled line
CompiledSets == << pats.whitelist[1], pats.blacklist[1] >>

\* the compiled line matches the entry
LineMatches(path, is_dir) ==
    \E i \in 1..2 : PatternSetMatches(CompiledSets[i], path, is_dir)

FooDStarBar == <<"f", "o", "o", "/", "*", "*", "/", "b", "a", "r">>
DocFrotzDir == <<"d", "o", "c", "/", "f", "r", "o", "t", "z", "/">>

\* C8: the line foo/**/bar compiled for root /r matches /r/foo/bar,
\* /r/foo/x/bar and /r/foo/x/y/bar, and matches neither /r/bar nor
\* /r/foo/bar/baz, whether the entry is a directory or not.
C8_DStarZeroOrMoreDirectories ==
    (phase = "compiled" /\ gline = FooDStarBar) =>
        \A is_dir \in BOOLEAN :
            /\ LineMatches(Root \o <<"/", "f", "o", "o", "/", "b", "a", "r">>, is_dir)
            /\ LineMatches(Root \o <<"/", "f", "o", "o", "/", "x", "/", "b", "a", "r">>, is_dir)
            /\ LineMatches(Root \o <<"/", "f", "o", "o", "/", "x", "/", "y", "/", "b", "a", "r">>,
                           is_dir)
            /\ ~LineMatches(Root \o <<"/", "b", "a", "r">>, is_dir)
            /\ ~LineMatches(Root \o <<"/", "f", "o", "o", "/", "b", "a", "r", "/", "b", "a", "z">>,
                            is_dir)

\* the anchoring the specification states for a pattern text
StatedAnchored(text) ==
    \/ StartsWith(text, <<"/">>)
    \/ /\ \E i \in 1..(Len(text) - 1) : text[i] = "/"
       /\ ~StartsWith(text, <<"*", "*", "/">>)
       /\ ~Contains(text, <<"/", "*", "*", "/">>)

\* C9: Patterns::parse anchors a line at the pattern root iff the line begins
\* with "/", or has a "/" before its last character and neither begins with
\* "**/" nor contains "/**/" -- lines ending with "/" included: doc/frotz/
\* matches the directory doc/frotz under the root and not a/doc/frotz.
C9_RootAnchoredIff ==
    /\ (phase = "parsed" /\ IsSome(parsed)) =>
            (RootOnly(Unwrap(Normalised(gline)).text)
                <=> StatedAnchored(Unwrap(Normalised(gline)).text))
    /\ (phase = "compiled" /\ gline = DocFrotzDir) =>
            /\ LineMatches(Root \o <<"/", "d", "o", "c", "/", "f", "r", "o", "t", "z">>, TRUE)
            /\ ~LineMatches(Root \o <<"/", "a", "/", "d", "o", "c", "/", "f", "r", "o", "t", "z">>,
                            TRUE)

\* C10: a pattern compiled from a line ending with "/" or "/*", negated or
\* not, makes PatternSet::matches true only for directories: no entry that is
\* not a directory is matched by it.
C10_DirOnlyNeedsDirectory ==
    (/\ phase = "compiled"
     /\ EndsWith(gline, <<"/">>) \/ EndsWith(gline, <<"/", "*">>)) =>
        \A path \in Paths : ~LineMatches(path, FALSE)

\* a negated line ending with "/" was compiled, and matches some directory
C10_Witness ==
    /\ phase = "compiled"
    /\ EndsWith(gline, <<"/">>)
    /\ StartsWith(gline, <<"!">>)
    /\ Len(pats.whitelist[1].dir_only) = 1
    /\ \E path \in Paths : PatternSetMatches(pats.whitelist[1], path, TRUE)

(***************************************************************************)
(* Properties of the layers of ignore patterns.                            *)
(***************************************************************************)
\* a line of a loaded .gitignore, of the given polarity, matches the entry
LayerLineMatches(whitelist, path, is_dir) ==
    \E l \in 1..Len(layers) : \E k \in 1..Len(layers[l].strings) :
        LET res == Parse(layers[l].root, layers[l].strings[k])
        IN  /\ IsSome(res)
            /\ Unwrap(res).whitelist = whitelist
            /\ Unwrap(res).pattern.type # "Err"
            /\ Unwrap(res).dir_only => is_dir
            /\ PatternMatches(Unwrap(res).pattern,
                              Truncated(PatternSetNew(layers[l].root), path))

\* C1: for the Patterns built by Patterns::new and any extend calls,
\* is_excluded(path, is_dir) is true iff no PatternSet of the whitelist
\* matches (path, is_dir) and some PatternSet of the blacklist does; the sets
\* hold exactly the lines of the .gitignore files loaded so far.
C1_ExcludedIffBlackAndNotWhite ==
    phase = "walk" =>
        \A path \in WalkPaths : \A is_dir \in BOOLEAN :
            /\ IsExcluded(pats, path, is_dir)
                <=> /\ ~\E i \in 1..Len(pats.whitelist) :
                            PatternSetMatches(pats.whitelist[i], path, is_dir)
                    /\ \E j \in 1..Len(pats.blacklist) :
                            PatternSetMatches(pats.blacklist[j], path, is_dir)
            /\ IsExcluded(pats, path, is_dir)
                <=> /\ ~LayerLineMatches(TRUE, path, is_dir)
                    /\ LayerLineMatches(FALSE, path, is_dir)

\* two .gitignore files are layered; one entry is excluded, another is matched
\* by a blacklist set and kept by a whitelist set of the other file
C1_Witness ==
    /\ phase = "walk"
    /\ Len(layers) >= 2
    /\ Len(pats.whitelist) >= 2
    /\ \E path \in WalkPaths : IsExcluded(pats, path, FALSE)
    /\ \E path \in WalkPaths : \E i \in 1..Len(pats.whitelist) : \E j \in 1..Len(pats.blacklist) :
        /\ i # j
        /\ PatternSetMatches(pats.whitelist[i], path, FALSE)
        /\ PatternSetMatches(pats.blacklist[j], path, FALSE)
        /\ pats.whitelist[i].root # pats.blacklist[j].root

(***************************************************************************)
(* Properties of grep_many.                                                *)
(***************************************************************************)
\* what stdout received from the displays of the files
Records == SelectSeq(many.stdout, LAMBDA c : c.ev # "file_separator")

RECURSIVE WritersInOrder(_)
WritersInOrder(keys) ==
    IF keys = <<>> THEN <<>>
    ELSE many.writers[Head(keys)] \o WritersInOrder(Tail(keys))

\* C2: the outputs of the files of a directory reach stdout in ascending
\* order of their paths, whatever the order of read_dir and whether a file
\* was scanned inline or on the pool -- when grep_many returns, stdout holds
\* the whole output of each file, file after file -- and the records of one
\* file are in ascending order of their line numbers.
C2_OutputOrdered ==
    phase = "many" =>
        /\ \A i, j \in 1..Len(Records) :
            i < j =>
                /\ Records[i].path = Records[j].path \/ PathLess(Records[i].path, Records[j].path)
                /\ (/\ Records[i].path = Records[j].path
                    /\ IsSome(Records[i].ctx) /\ IsSome(Records[j].ctx))
                        => Unwrap(Records[i].ctx).lno < Unwrap(Records[j].ctx).lno
        /\ many.pc = "done" =>
            Records = WritersInOrder(Ascending(DOMAIN many.writers))

\* three files were handed over out of order, scanned on the pool in another
\* order than that of their paths, and two of them wrote several records
C2_Witness ==
    /\ phase = "many"
    /\ many.pc = "done"
    /\ Len(many.entries) >= 3
    /\ many.spawned = {}
    /\ [i \in 1..Len(many.entries) |-> many.entries[i].path] # Ascending(DOMAIN many.writers)
    /\ many.ran # Ascending(DOMAIN many.writers)
    /\ \E i, j \in 1..Len(Records) :
        /\ Records[i].path # Records[j].path
        /\ i + 1 < j
        /\ Records[i].path = Records[i + 1].path

(***************************************************************************)
(* More properties of one compiled .gitignore line.                        *)
(***************************************************************************)
\* the compiled line is written as Patterns::parse normalises it: an optional
\* "!" and the pattern text, no blanks or escapes to strip
InNormalForm ==
    /\ IsSome(Normalised(gline))
    /\ gline = (IF Unwrap(Normalised(gline)).whitelist THEN <<"!">> ELSE <<>>)
                    \o Unwrap(Normalised(gline)).text

\* the pattern text P of the compiled line
PatternText == Unwrap(Normalised(gline)).text

\* the line that reads **/P, negated as the compiled line is
DStarLine ==
    (IF Unwrap(Normalised(gline)).whitelist THEN <<"!">> ELSE <<>>)
        \o <<"*", "*", "/">> \o PatternText

\* the entry is matched by the Patterns compiled from the one line
MatchedBy(line, path, is_dir) ==
    \/ PatternSetMatches(PatternsNew(Root, <<line>>).whitelist[1], path, is_dir)
    \/ PatternSetMatches(PatternsNew(Root, <<line>>).blacklist[1], path, is_dir)

\* P has no "/" before its last character and does not start with "**/"
Unanchorable(text) ==
    /\ text # <<>>
    /\ ~\E i \in 1..(Len(text) - 1) : text[i] = "/"
    /\ ~StartsWith(text, <<"*", "*", "/">>)

\* C11: a line P without "/" in a non-terminal position and not starting
\* with "**/" compiles to a pattern that accepts exactly the (path, is_dir)
\* pairs the line **/P accepts.
C11_SameAsDStarPrefixed ==
    (phase = "compiled" /\ InNormalForm /\ Unanchorable(PatternText)) =>
        \A path \in Paths : \A is_dir \in BOOLEAN :
            LineMatches(path, is_dir) <=> MatchedBy(DStarLine, path, is_dir)

(***************************************************************************)
(* More properties of grep_many.                                           *)
(***************************************************************************)
\* stdout from position i on starts with the whole buffer of a file that
\* wrote some lines
NonEmptyOutputAt(i) ==
    \E path \in DOMAIN many.writers :
        /\ many.writers[path] # <<>>
        /\ i + Len(many.writers[path]) - 1 <= Len(many.stdout)
        /\ SubSeq(many.stdout, i, i + Len(many.writers[path]) - 1) = many.writers[path]

\* stdout up to position i ends with the whole buffer of a file that wrote
\* some lines
NonEmptyOutputUpTo(i) ==
    \E path \in DOMAIN many.writers :
        /\ many.writers[path] # <<>>
        /\ Len(many.writers[path]) <= i
        /\ SubSeq(many.stdout, i - Len(many.writers[path]) + 1, i) = many.writers[path]

\* C12: with file separators enabled, a "--" on stdout stands immediately
\* before the non-empty output of a file and follows an earlier non-empty
\* output of a file (of this directory, or of an earlier one of the walk): it
\* is never the first thing written and never written before an empty buffer.
C12_SeparatorOnlyBetweenOutputs ==
    (phase = "many" /\ WithContext(args)) =>
        \A i \in 1..Len(many.stdout) :
            many.stdout[i] = FileSeparatorCall =>
                /\ NonEmptyOutputAt(i + 1)
                /\ IF i = 1 THEN many.earlier_output ELSE NonEmptyOutputUpTo(i - 1)

\* the first directory of a walk: a file without output lies between two
\* files with output, and one separator was written, between the two outputs
C12_Witness ==
    /\ phase = "many" /\ WithContext(args)
    /\ many.pc = "done"
    /\ ~many.earlier_output
    /\ \E p, q, r \in DOMAIN many.writers :
        /\ PathLess(p, q) /\ PathLess(q, r)
        /\ many.writers[p] # <<>> /\ many.writers[q] = <<>> /\ many.writers[r] # <<>>
        /\ many.stdout = many.writers[p] \o <<FileSeparatorCall>> \o many.writers[r]

\* what grep_many writes when no task is spawned (tpool is None): each file
\* is scanned as it is dispatched, and the buffers are flushed in key order
RECURSIVE SequentialStdout(_, _, _, _)
SequentialStdout(a, entries, keys, printed) ==
    IF keys = <<>> THEN <<>>
    ELSE LET entry == CHOOSE e \in { entries[i] : i \in 1..Len(entries) } :
                        e.path = Head(keys)
             w == IF Len(MapOf(entry.content)) = 0 THEN ZeroGrep(a, entry).calls
                  ELSE WalkerGrep(a, entry).calls
             checked == FlushChecked(a, w)
         IN  (IF checked /\ printed THEN <<FileSeparatorCall>> ELSE <<>>) \o w
                \o SequentialStdout(a, entries, Tail(keys), printed \/ checked)

\* C17: nothing is written to stdout, neither a buffer nor a file separator,
\* before every entry was dispatched and every spawned scan has finished; and
\* what grep_many has written when it returns does not depend on the order
\* in which the tasks ran: it is what the scan of the files one after the
\* other writes.
C17_FlushAfterAllTasks ==
    phase = "many" =>
        /\ (many.stdout # <<>> \/ many.pc \in {"flush", "done"}) =>
                /\ many.spawned = {}
                /\ { many.ran[i] : i \in 1..Len(many.ran) }
                        = { many.entries[i].path : i \in 1..Len(many.entries) }
        /\ many.pc = "done" =>
                many.stdout = SequentialStdout(args, many.entries,
                                    WriterKeys(many.entries), many.earlier_output)

\* three files with output were scanned on the pool, the last dispatched
\* first, and their buffers are on stdout
C17_Witness ==
    /\ phase = "many"
    /\ many.pc = "done"
    /\ Len(many.entries) = 3
    /\ Len(many.ran) = 3
    /\ many.ran[1] = many.entries[3].path
    /\ \A path \in DOMAIN many.writers : many.writers[path] # <<>>
    /\ many.stdout # <<>>

(***************************************************************************)
(* More properties of the scan of one file.                                *)
(***************************************************************************)
\* the line numbers of the records the scan has displayed
RecordLnos ==
    { Unwrap(scan.calls[i].ctx).lno :
        i \in { k \in 1..Len(scan.calls) : IsSome(scan.calls[k].ctx) } }

\* C18: in a scan without context of a reader that provides no map() (the
\* buffered fallback, stdin) the pre-filter is skipped: every line is
\* iterated and matched, up to a break asked for by on_match, and the plain
\* strategy displays every line the matcher accepts.
C18_UnmappedReaderScansEveryLine ==
    (phase = "scan" /\ ~WithContext(args) /\ ~IsSome(ReaderMap(reader))
        /\ scan.pc = "done")
    => /\ scan.stop \/ scan.total = Len(reader.content)
       /\ Strategy(args) = "grep" => RecordLnos = MatchedLines

\* C19: the scan of a zero-length file through the Zero reader never fails,
\* whatever the strategy and the matcher: it returns with no line seen and no
\* record of a line displayed.
C19_ZeroReaderNeverFails ==
    (phase = "scan" /\ reader.kind = "Zero")
    => /\ scan.pc # "panic"
       /\ scan.pc = "done" => (scan.total = 0 /\ scan.lno = 0 /\ RecordLnos = {})

\* C20: in a scan with context every record collected for line number n,
\* and every record displayed with line number n, carries the text of the
\* n-th line of the file.
C20_RecordCarriesItsLine ==
    (phase = "scan" /\ Strategy(args) = "context") =>
        /\ \A n \in DOMAIN scan.output :
            /\ scan.output[n].lno = n
            /\ n \in 1..Len(reader.content)
            /\ scan.output[n].line = reader.content[n]
        /\ \A i \in 1..Len(scan.calls) :
            IsSome(scan.calls[i].ctx) =>
                /\ Unwrap(scan.calls[i].ctx).lno \in 1..Len(reader.content)
                /\ Unwrap(scan.calls[i].ctx).line
                        = reader.content[Unwrap(scan.calls[i].ctx).lno]

(***************************************************************************)
(* Properties of the walk of a tree.                                       *)
(***************************************************************************)
\* walk_with_parents was called for a symlink that can be read and whose
\* canonicalized target is one of the ancestors handed over
LoopAt(v) ==
    /\ KindAt(fs, v.path) = "link"
    /\ IsSome(Canonicalize(fs, v.path))
    /\ \E i \in 1..Len(v.parents) : v.parents[i] = Unwrap(Canonicalize(fs, v.path))

\* C13: when symlinks are followed, a symlink whose canonicalized target is
\* a directory of the ancestor list is logged as a loop and its target is
\* not walked; once the walk has returned, the files of the directory that
\* holds the symlink and pass the file filter were scanned and its other
\* entries were walked.
C13_LoopReportedNotFollowed ==
    (phase = "tree" /\ ~walk.ignore_symlinks) =>
        \A v \in walk.visited :
            LoopAt(v) =>
                /\ Logged("loop", v.path, v.parents) \in walk.logs
                /\ v \notin walk.followed
                /\ Call(Unwrap(Canonicalize(fs, v.path)),
                        Append(v.parents, Unwrap(Canonicalize(fs, v.path))))
                        \notin walk.visited \cup walk.call
                /\ WalkDone =>
                        \A n \in Children(fs, ParentOf(v.path)) \ {v.path} :
                            IF fs[n].kind \in {"file", "badfile"}
                            THEN FiltersMatches(walk.file_filters, n)
                                    => n \in walk.grepped
                            ELSE fs[n].kind # "nometa"
                                    => Call(n, v.parents) \in walk.visited

\* /r/a -> /r and the file /r/b: the loop was logged and /r/b was scanned
C13_Witness ==
    /\ phase = "tree" /\ ~walk.ignore_symlinks
    /\ WalkDone
    /\ fs[<<"r", "a">>] = [kind |-> "link", target |-> WalkRoot]
    /\ fs[<<"r", "b">>].kind = "file"
    /\ Call(<<"r", "a">>, <<WalkRoot>>) \in walk.visited
    /\ LoopAt(Call(<<"r", "a">>, <<WalkRoot>>))
    /\ <<"r", "b">> \in walk.grepped

\* C14: a failure of the file system on one entry -- a directory that
\* cannot be enumerated, metadata, a link that cannot be read or
\* canonicalized, a file that cannot be read -- never aborts the walk: it is
\* logged, and once the walk has returned every file that passes the file
\* filter and can be reached without passing through a failing entry was
\* handed to a scan.
C14_FailureSkipsOneEntry ==
    phase = "tree" =>
        /\ ~walk.panic
        /\ WalkDone =>
                \A n \in TreeNodes :
                    (/\ PathStartsWith(n, WalkRoot)
                     /\ fs[n].kind = "file"
                     /\ FiltersMatches(walk.file_filters, n)
                     /\ KindAt(fs, ParentOf(n)) = "dir")
                        => n \in walk.grepped

(***************************************************************************)
(* Properties of the formatter.                                            *)
(***************************************************************************)
\* the line is made of ASCII characters only
AsciiLine == \A i \in 1..Len(term.line) : term.line[i] = "-"

\* the length of the needle
NeedleLen == term.needle.end - term.needle.start

\* C15: without colours, for one match of length m in an ASCII line of length
\* L, the width W of the display and the prefix p, the row is len(p) + L long
\* when L < W - len(p), len(p) + m long when m > W, and W long otherwise.
C15_RenderedLength ==
    (phase = "format" /\ term.pc = "done" /\ AsciiLine) =>
        Len(term.out) =
            IF Len(term.line) < term.width - Len(term.prefix)
            THEN Len(term.prefix) + Len(term.line)
            ELSE IF NeedleLen > term.width THEN Len(term.prefix) + NeedleLen
            ELSE term.width

\* the cuts of rich_format_one are chosen
CutsChosen == term.pc \in {"join", "done"}

\* C16: for every line, every needle on character boundaries and every
\* width handed to rich_format_one, the computation of the cuts does not
\* fail, its boundary-search loops end within the line, and the left and the
\* right cut lie on character boundaries of the line, around the needle.
C16_CutsOnCharBoundaries ==
    (phase = "format" /\ term.width >= Len(term.prefix)) =>
        /\ term.pc # "panic"
        /\ CutsChosen =>
            /\ term.iterations <= Len(term.line)
            /\ IsCharBoundary(term.line, term.start)
            /\ IsCharBoundary(term.line, term.end)
            /\ term.start <= term.needle.start
            /\ term.needle.end <= term.end


(***************************************************************************)
(* Properties of the walk: termination and what is traversed.              *)
(***************************************************************************)
\* C21: with symlinks followed or not, and whatever the symlinks of the file
\* system point to (an ancestor, a directory outside of the root that leads
\* back, one another), the walk comes to an end: Walker::walk returns to
\* main, or the process stops in a panic
C21_WalkTerminates == <>(phase = "tree" /\ (WalkDone \/ walk.panic))

\* a walk that returned after it followed a symlink out of the root and met a
\* loop below the target
C21_Witness ==
    /\ phase = "tree"
    /\ WalkDone
    /\ walk.followed # {}
    /\ \E l \in walk.logs : l.ev = "loop" /\ Len(l.parents) > 2

\* walk_with_parents was called for a symlink that can be read and whose
\* canonicalized target is none of the ancestors handed over but a directory
\* that holds one of them
ContainsAncestorAt(v) ==
    /\ KindAt(fs, v.path) = "link"
    /\ IsSome(Canonicalize(fs, v.path))
    /\ \A i \in 1..Len(v.parents) : v.parents[i] # Unwrap(Canonicalize(fs, v.path))
    /\ \E i \in 1..Len(v.parents) :
            PathStartsWith(v.parents[i], Unwrap(Canonicalize(fs, v.path)))

\* C22: when symlinks are followed, a symlink whose canonicalized target is
\* not an ancestor of the list but a path prefix of one (a directory that
\* contains an ancestor) is skipped with a log line, and its target is not
\* walked.
C22_TargetAboveAncestorSkipped ==
    (phase = "tree" /\ ~walk.ignore_symlinks) =>
        \A v \in walk.visited :
            ContainsAncestorAt(v) =>
                /\ Logged("skip", v.path, v.parents) \in walk.logs
                /\ v \notin walk.followed

\* C27: every regular file that the walk of the root hands to a scan has a
\* path the file filter accepts, the files reached through a followed symlink
\* included.
C27_ScannedFilesPassFilter ==
    phase = "tree" =>
        \A n \in walk.grepped : FiltersMatches(walk.file_filters, n)

FollowedTargets == { Unwrap(Canonicalize(fs, v.path)) : v \in walk.followed }

LnoOfCall(i) == Unwrap(scan.calls[i].ctx).lno

\* C25: in with-context mode a match separator is written between two
\* records emitted one after the other iff their line numbers differ by more
\* than 1: every separator stands between two records that are more than one
\* line apart, two records that follow each other directly are one line
\* apart, and no separator comes first or last.
C25_SeparatorIffGap ==
    (phase = "scan" /\ Strategy(args) = "context") =>
        /\ \A i \in 1..Len(scan.calls) :
                scan.calls[i].ev = "match_separator" =>
                    /\ 1 < i /\ i < Len(scan.calls)
                    /\ scan.calls[i - 1].ev = "display"
                    /\ scan.calls[i + 1].ev = "display"
                    /\ LnoOfCall(i + 1) - LnoOfCall(i - 1) > 1
        /\ \A i \in 1..(Len(scan.calls) - 1) :
                (scan.calls[i].ev = "display" /\ scan.calls[i + 1].ev = "display")
                    => LnoOfCall(i + 1) - LnoOfCall(i) = 1

\* a scan that emitted two records more than a line apart, and the separator
\* between them
C25_Witness ==
    /\ phase = "scan" /\ Strategy(args) = "context" /\ scan.pc = "done"
    /\ \E i \in 2..(Len(scan.calls) - 1) :
            /\ scan.calls[i].ev = "match_separator"
            /\ LnoOfCall(i + 1) - LnoOfCall(i - 1) > 1

(***************************************************************************)
(* Properties of a compiled line of the shape head/**/tail.                *)
(***************************************************************************)
\* the patterns of the compiled line, each with the set that holds it
DStarTextPatterns ==
    UNION { { [set |-> CompiledSets[i], pattern |-> CompiledSets[i].all[k]] :
                k \in 1..Len(CompiledSets[i].all) }
            \cup { [set |-> CompiledSets[i], pattern |-> CompiledSets[i].dir_only[k]] :
                      k \in 1..Len(CompiledSets[i].dir_only) } : i \in 1..2 }

XFooYBar == <<"/", "x", "f", "o", "o", "/", "y", "/", "b", "a", "r">>

\* first occurs in the path at offset i and the rest of the path ends in
\* second, with at least one character between the two
MatchesAtOccurrence(p, path, i) ==
    /\ SubSeq(path, i + 1, i + Len(p.first)) = p.first
    /\ Len(path) - (i + Len(p.first)) > Len(p.second)
    /\ TakeLast(path, Len(p.second)) = p.second

\* C29: a line of the shape head/**/tail, compiled to DStarTextDStarText,
\* matches a path only if head occurs in the path as whole path components,
\* its occurrence starting right after a "/": foo/**/bar does not match
\* /r/xfoo/y/bar; and the result is the same whichever occurrence of head is
\* looked at.
C29_HeadOnComponentBoundary ==
    phase = "compiled" =>
        \A d \in { x \in DStarTextPatterns : x.pattern.type = "DStarTextDStarText" } :
            \A path \in Paths \cup { Root \o XFooYBar } :
                LET truncated == Truncated(d.set, path)
                IN  /\ PatternMatches(d.pattern, truncated)
                        => Contains(truncated, <<"/">> \o d.pattern.first)
                    /\ PatternMatches(d.pattern, truncated)
                        <=> \E i \in 0..(Len(truncated) - Len(d.pattern.first)) :
                                MatchesAtOccurrence(d.pattern, truncated, i)

(***************************************************************************)
(* The arithmetic of Format::format.                                       *)
(***************************************************************************)
\* C30: Format::format never fails arithmetically: whatever the width W of
\* the display and the prefix, no subtraction panics, and the width handed to
\* rich_format is W - len(prefix), a number that is not negative, also when
\* the prefix is longer than W.
C30_AvailableWidthNoUnderflow ==
    phase = "format" =>
        /\ term.pc # "panic"
        /\ term.pc = "margins" =>
                (term.w = term.width - Len(term.prefix) /\ term.w >= 0)

(***************************************************************************)
(* The order of the layers of ignore patterns.                             *)
(***************************************************************************)
\* the Patterns of the l-th loaded .gitignore, the deepest first
LayerPatterns(l) == PatternsNew(layers[l].root, layers[l].strings)

\* a set of the list matches the entry
SomeSetMatches(sets, path, is_dir) ==
    \E i \in 1..Len(sets) : PatternSetMatches(sets[i], path, is_dir)

\* the layers combined by extend, in the given order
RECURSIVE ExtendedIn(_)
ExtendedIn(order) ==
    IF order = <<>> THEN PatternsDefault
    ELSE Extend(LayerPatterns(Head(order)), ExtendedIn(Tail(order)))

\* the orders in which the loaded layers can be combined
LayerOrders ==
    { o \in [1..Len(layers) -> 1..Len(layers)] :
        \A i, j \in 1..Len(layers) : i # j => o[i] # o[j] }

\* C26: for the Patterns walk_dir composes, an entry matched by a whitelist
\* pattern of a deeper .gitignore is not excluded even when the blacklist of
\* an ancestor's .gitignore matches it, and is_excluded gives the same result
\* in whatever order the layers are combined by extend.
C26_LayerOrderIrrelevant ==
    phase = "walk" =>
        /\ \A l, m \in 1..Len(layers) :
                l < m =>
                    LET white == LayerPatterns(l).whitelist
                        black == LayerPatterns(m).blacklist
                    IN  \A path \in WalkPaths : \A is_dir \in BOOLEAN :
                            (/\ SomeSetMatches(white, path, is_dir)
                             /\ SomeSetMatches(black, path, is_dir))
                                => ~IsExcluded(pats, path, is_dir)
        /\ \A o \in LayerOrders :
                LET combined == ExtendedIn(o)
                IN  \A path \in WalkPaths : \A is_dir \in BOOLEAN :
                        IsExcluded(combined, path, is_dir)
                            = IsExcluded(pats, path, is_dir)

\* a deeper .gitignore whitelists an entry that the .gitignore of an ancestor
\* blacklists, and a third entry is excluded
C26_Witness ==
    /\ phase = "walk"
    /\ \E path \in WalkPaths : \E l, m \in 1..Len(layers) :
            /\ l < m
            /\ SomeSetMatches(LayerPatterns(l).whitelist, path, FALSE)
            /\ SomeSetMatches(LayerPatterns(m).blacklist, path, FALSE)
    /\ \E path \in WalkPaths : IsExcluded(pats, path, FALSE)

(***************************************************************************)
(* The lines of the two readers.                                           *)
(***************************************************************************)
\* the content split at each LF, each item without its LF and without one CR
\* right before that LF
RECURSIVE SplitLines(_)
SplitLines(content) ==
    IF content = <<>> THEN <<>>
    ELSE LET found == MemchrLF(content, 0)
             item == IF IsSome(found) THEN SubSeq(content, 1, Unwrap(found))
                     ELSE content
             rest == IF IsSome(found)
                     THEN SubSeq(content, Unwrap(found) + 2, Len(content))
                     ELSE <<>>
         IN  << IF IsSome(found) /\ item # <<>> /\ item[Len(item)] = CR
                THEN SubSeq(item, 1, Len(item) - 1) ELSE item >>
             \o SplitLines(rest)

\* C24: for every content the memory-mapped reader yields the lines the
\* buffered reader yields: the content split at each LF, each item without
\* its LF and without one CR right before it, no other byte dropped or added.
C24_MappedLinesAsBuffered ==
    (phase = "lines" /\ bytes.mapped.done /\ bytes.lines.end) =>
        /\ bytes.mapped.out = bytes.lines.out
        /\ bytes.mapped.out = SplitLines(bytes.content)

(***************************************************************************)
(* The file separators of a whole run.                                     *)
(***************************************************************************)
\* C23: with file separators enabled, over the whole run (all the
\* directories of all the root arguments) every non-empty buffer flushed
\* after an earlier non-empty buffer comes right after exactly one file
\* separator, and the first non-empty buffer of the run comes first.
C23_SeparatorAcrossRoots ==
    (phase = "roots" /\ run.print_file_separator) =>
        \A i \in 1..Len(run.stdout) :
            run.stdout[i].ev = "buffer" =>
                IF \E j \in 1..(i - 1) : run.stdout[j].ev = "buffer"
                THEN /\ run.stdout[i - 1].ev = "file_separator"
                     /\ i > 2 => run.stdout[i - 2].ev = "buffer"
                ELSE i = 1
====
